---- MODULE Spec2Model ----
(***************************************************************************)
(* A model of hid_parser (python-hid-parser): the bit-slice primitive,     *)
(* the item tokenizer, the report descriptor builder and the report        *)
(* decoder, translated from src/hid_parser/__init__.py and the usage       *)
(* registry of src/hid_parser/data.py.                                     *)
(*                                                                         *)
(* Python values are represented as follows.                               *)
(*   None / an int v     the sequences <<>> and <<v>> (None, Some(v))      *)
(*   a dict              a function whose DOMAIN is the set of keys, or,   *)
(*                       where insertion order is observable (the item     *)
(*                       pools), a sequence of [rid, items] entries        *)
(*   a raised exception  a record [err |-> "<exception class>"]            *)
(***************************************************************************)
EXTENDS Integers, Sequences, FiniteSets, TLC

VARIABLES
    status,          \* where ReportDescriptor.__init__ is: "new", "parsing",
                     \* "done" (object returned) or the exception it raised
    _input,          \* self._input   : item pool, report id -> items
    _output,         \* self._output
    _feature,        \* self._feature
    offset_input,    \* _parse locals: running bit offset per report id
    offset_output,
    offset_feature,
    report_id,       \* _parse locals: global state
    report_count,
    report_size,
    usage_page,
    glob,
    usages,          \* _parse locals: local state
    usage_min,
    warned,          \* warnings raised by the last step, in order
    rdesc,           \* self._data when the buffer is given up front
    i,               \* _iterate_raw's index into rdesc
    report,          \* the last parse_*_report call: [pool, data]
    parsed,          \* what that call returned or raised
    shift_args,      \* the last _data_bit_shift call: [data, offset, length]
    shifted,         \* what that call returned or raised
    token,           \* what _iterate_raw yielded last, or what it raised
    bitnumber,       \* a BitNumber: its _value and what .byte and .bit gave
    usage_objs,      \* two Usage(...) calls: their arguments and what they made
    main_item        \* a VariableItem's flags, its flag properties, their description

vars == <<status, _input, _output, _feature, offset_input, offset_output,
          offset_feature, report_id, report_count, report_size, usage_page,
          glob, usages, usage_min, warned, rdesc, i, report, parsed,
          shift_args, shifted, token, bitnumber, usage_objs, main_item>>

---------------------------------------------------------------------------
(* Python values *)

None == <<>>
Some(v) == <<v>>
Val(o) == o[1]

\* A raised exception; what a call returns otherwise is a record without err
Raise(kind) == [err |-> kind]
Raised(r) == "err" \in DOMAIN r

Max(a, b) == IF a >= b THEN a ELSE b

RECURSIVE Pow2(_)
Pow2(n) == IF n = 0 THEN 1 ELSE 2 * Pow2(n - 1)

\* x >> n and x << n on non-negative integers
Shr(x, n) == x \div Pow2(n)
Shl(x, n) == x * Pow2(n)

\* x & y and x | y on non-negative integers, bit by bit
RECURSIVE BitAnd(_, _)
BitAnd(x, y) ==
    IF x = 0 \/ y = 0 THEN 0
    ELSE (IF x % 2 = 1 /\ y % 2 = 1 THEN 1 ELSE 0) + 2 * BitAnd(x \div 2, y \div 2)

RECURSIVE BitOr(_, _)
BitOr(x, y) ==
    IF x = 0 THEN y
    ELSE IF y = 0 THEN x
    ELSE (IF x % 2 = 1 \/ y % 2 = 1 THEN 1 ELSE 0) + 2 * BitOr(x \div 2, y \div 2)

\* int.from_bytes(bytes, byteorder='little')
RECURSIVE FromBytesLE(_)
FromBytesLE(bytes) ==
    IF bytes = <<>> THEN 0 ELSE Head(bytes) + 256 * FromBytesLE(Tail(bytes))

\* seq[k] with Python's indexing: 0-based, negative k counts from the end
PyIndex(seq, k) == IF k >= 0 THEN seq[k + 1] ELSE seq[Len(seq) + k + 1]

\* seq[a:b] for 0 <= a, with Python's clamping at the end of seq
PySlice(seq, a, b) ==
    LET hi == IF b > Len(seq) THEN Len(seq) ELSE b
    IN  IF a >= hi THEN <<>> ELSE SubSeq(seq, a + 1, hi)

RECURSIVE SeqSum(_)
SeqSum(seq) == IF seq = <<>> THEN 0 ELSE Head(seq) + SeqSum(Tail(seq))

---------------------------------------------------------------------------
(* _data_bit_shift *)

\* The body of the while loop for one value of shifted_offset: the byte that
\* ends up in shifted[shifted_offset], read at data index i_
ShiftedByte(data, i_, start_offset, right_extra) ==
    LET low == Shr(PyIndex(data, i_), right_extra)
    IN  IF i_ - start_offset >= 0
        THEN BitOr(low,
                   Shl(BitAnd(PyIndex(data, i_ - 1), Shr(255, 8 - right_extra)),
                       8 - right_extra))
        ELSE low

\* The same with right_extra left at 8 when the slice ends on a byte boundary
_data_bit_shift_no_reset(data, offset, length) ==
    IF ~(length > 0) THEN Raise("ValueError")
    ELSE
    LET left_extra   == offset % 8
        right_extra0 == 8 - ((offset + length) % 8)
        start_offset == offset \div 8
        end_offset   == (offset + length - 1) \div 8
        byte_length  == (length - 1) \div 8 + 1
        right_extra  == right_extra0
        \* shifted_offset = k - 1 runs from byte_length - 1 down to 0 while
        \* i runs down from end_offset
        loop == [k \in 1..byte_length |->
                   ShiftedByte(data, end_offset - (byte_length - k),
                               start_offset, right_extra)]
        mask == Shr(255, (left_extra + right_extra) % 8)
    IN  IF ~(end_offset < Len(data)) THEN Raise("ValueError")
        ELSE [shifted |-> [k \in 1..byte_length |->
                             IF k = 1 THEN BitAnd(loop[k], mask) ELSE loop[k]]]

\* The same with the first byte of the result left unmasked
_data_bit_shift_unmasked(data, offset, length) ==
    IF ~(length > 0) THEN Raise("ValueError")
    ELSE
    LET left_extra   == offset % 8
        right_extra0 == 8 - ((offset + length) % 8)
        start_offset == offset \div 8
        end_offset   == (offset + length - 1) \div 8
        byte_length  == (length - 1) \div 8 + 1
        right_extra  == IF right_extra0 = 8 THEN 0 ELSE right_extra0
        \* shifted_offset = k - 1 runs from byte_length - 1 down to 0 while
        \* i runs down from end_offset
        loop == [k \in 1..byte_length |->
                   ShiftedByte(data, end_offset - (byte_length - k),
                               start_offset, right_extra)]
        mask == 255
    IN  IF ~(end_offset < Len(data)) THEN Raise("ValueError")
        ELSE [shifted |-> [k \in 1..byte_length |->
                             IF k = 1 THEN BitAnd(loop[k], mask) ELSE loop[k]]]

\* The same with a slice of no bits taken for the empty list
_data_bit_shift_empty(data, offset, length) ==
    IF length < 0 THEN Raise("ValueError")
    ELSE IF length = 0 THEN [shifted |-> <<>>]
    ELSE
    LET left_extra   == offset % 8
        right_extra0 == 8 - ((offset + length) % 8)
        start_offset == offset \div 8
        end_offset   == (offset + length - 1) \div 8
        byte_length  == (length - 1) \div 8 + 1
        right_extra  == IF right_extra0 = 8 THEN 0 ELSE right_extra0
        \* shifted_offset = k - 1 runs from byte_length - 1 down to 0 while
        \* i runs down from end_offset
        loop == [k \in 1..byte_length |->
                   ShiftedByte(data, end_offset - (byte_length - k),
                               start_offset, right_extra)]
        mask == Shr(255, (left_extra + right_extra) % 8)
    IN  IF ~(end_offset < Len(data)) THEN Raise("ValueError")
        ELSE [shifted |-> [k \in 1..byte_length |->
                             IF k = 1 THEN BitAnd(loop[k], mask) ELSE loop[k]]]

_data_bit_shift(data, offset, length) ==
    IF ~(length > 0) THEN Raise("ValueError")
    ELSE
    LET left_extra   == offset % 8
        right_extra0 == 8 - ((offset + length) % 8)
        start_offset == offset \div 8
        end_offset   == (offset + length - 1) \div 8
        byte_length  == (length - 1) \div 8 + 1
        right_extra  == IF right_extra0 = 8 THEN 0 ELSE right_extra0
        \* shifted_offset = k - 1 runs from byte_length - 1 down to 0 while
        \* i runs down from end_offset
        loop == [k \in 1..byte_length |->
                   ShiftedByte(data, end_offset - (byte_length - k),
                               start_offset, right_extra)]
        mask == Shr(255, (left_extra + right_extra) % 8)
    IN  IF ~(end_offset < Len(data)) THEN Raise("ValueError")
        ELSE [shifted |-> [k \in 1..byte_length |->
                             IF k = 1 THEN BitAnd(loop[k], mask) ELSE loop[k]]]

\* BitNumber.byte
BitNumber_byte(_value) == _value \div 8

\* The remainder taken by the bits of one more byte
BitNumber_bit_next(_value) ==
    IF BitNumber_byte(_value) = 0 THEN _value
    ELSE _value % ((BitNumber_byte(_value) + 1) * 8)

\* BitNumber.bit
BitNumber_bit(_value) ==
    IF BitNumber_byte(_value) = 0 THEN _value
    ELSE _value % (BitNumber_byte(_value) * 8)

---------------------------------------------------------------------------
(* Type, TagMain, TagGlobal, TagLocal *)

Type_MAIN == 0
Type_GLOBAL == 1
Type_LOCAL == 2

TagMain_INPUT == 8
TagMain_OUTPUT == 9
TagMain_FEATURE == 11
TagMain_COLLECTION == 10
TagMain_END_COLLECTION == 12

TagGlobal_USAGE_PAGE == 0
TagGlobal_LOGICAL_MINIMUM == 1
TagGlobal_LOGICAL_MAXIMUM == 2
TagGlobal_PHYSICAL_MINIMUM == 3
TagGlobal_PHYSICAL_MAXIMUM == 4
TagGlobal_UNIT_EXPONENT == 5
TagGlobal_UNIT == 6
TagGlobal_REPORT_SIZE == 7
TagGlobal_REPORT_ID == 8
TagGlobal_REPORT_COUNT == 9
TagGlobal_PUSH == 10
TagGlobal_POP == 11
TagGlobal_signed_tags ==
    {TagGlobal_LOGICAL_MINIMUM, TagGlobal_LOGICAL_MAXIMUM,
     TagGlobal_PHYSICAL_MINIMUM, TagGlobal_PHYSICAL_MAXIMUM,
     TagGlobal_UNIT_EXPONENT}

TagLocal_USAGE == 0
TagLocal_USAGE_MINIMUM == 1
TagLocal_USAGE_MAXIMUM == 2
TagLocal_DESIGNATOR_INDEX == 3
TagLocal_DESIGNATOR_MINIMUM == 4
TagLocal_DESIGNATOR_MAXIMUM == 5
TagLocal_STRING_INDEX == 7
TagLocal_STRING_MINIMUM == 8
TagLocal_STRING_MAXIMUM == 9
TagLocal_DELIMITER == 10

\* The same test on the tag alone
_item_is_signed_any_type(tag, typ) == tag \in TagGlobal_signed_tags

_item_is_signed(tag, typ) ==
    IF typ # Type_GLOBAL THEN FALSE
    ELSE IF tag \in TagGlobal_signed_tags THEN TRUE
    ELSE FALSE

---------------------------------------------------------------------------
(* hid_parser.data: the usage registry *)

InRanges(x, ranges) == \E r \in ranges : r[1] <= x /\ x <= r[2]

\* UsagePages: the pages declared with a sub-table, by the table they name
UsagePages_GENERIC_DESKTOP_CONTROLS_PAGE == 1
UsagePages_KEYBOARD_KEYPAD_PAGE == 7
UsagePages_LED_PAGE == 8
UsagePages_BUTTON_PAGE == 9
UsagePages_CONSUMER_PAGE == 12
UsagePages_FIDO_ALLIANCE_PAGE == 61904
KeyboardKeypad_NO_EVENT == 0

\* UsagePages._single and UsagePages._range: every page that is declared
UsagePages_declared ==
    {<<1, 16>>, <<18, 18>>, <<20, 20>>, <<32, 32>>, <<64, 65>>, <<89, 89>>,
     <<128, 130>>, <<132, 133>>, <<140, 146>>, <<61904, 61904>>,
     <<65280, 65535>>}

\* The ids each sub-table declares, as inclusive ranges
GenericDesktopControls_declared ==
    {<<1, 2>>, <<4, 9>>, <<48, 50>>, <<52, 62>>, <<64, 72>>, <<128, 147>>,
     <<160, 168>>, <<176, 183>>}
Led_declared == {<<1, 77>>}
Button_declared == {<<0, 65534>>}
Consumer_declared ==
    {<<1, 6>>, <<32, 34>>, <<48, 54>>, <<64, 72>>, <<96, 102>>, <<128, 158>>,
     <<160, 164>>, <<176, 206>>, <<224, 234>>, <<240, 245>>, <<256, 269>>,
     <<336, 341>>, <<352, 362>>, <<368, 372>>, <<384, 442>>, <<444, 455>>,
     <<512, 521>>, <<538, 668>>}
FIDO_declared == {<<1, 1>>, <<32, 33>>}
\* KeyboardKeypad is the one table whose entries carry a usage type
KeyboardKeypad_SEL == {<<0, 102>>, <<104, 164>>, <<176, 220>>}
KeyboardKeypad_DV == {<<221, 221>>, <<224, 231>>}

\* `page in hid_parser.data.UsagePages.VENDOR_PAGE`: the metaclass leaves a range
\* attribute as the tuple (0xFF00, ..., 0xFFFF, 'Vendor Page', None), so the
\* test is membership in that tuple
InVendorPage(page) == page = 65280 \/ page = 65535

\* Usage.usage_types: UsagePages.get_subdata(page).get_subdata(usage), as a
\* set of usage types, or the KeyError / ValueError the lookups raise
usage_types(usage) ==
    LET declared(ranges) ==
            IF InRanges(usage.usage, ranges)
            THEN Raise("ValueError")        \* 'Sub-data not available'
            ELSE Raise("KeyError")          \* 'Value not found'
    IN  IF ~InRanges(usage.page, UsagePages_declared) THEN Raise("KeyError")
        ELSE IF usage.page = UsagePages_GENERIC_DESKTOP_CONTROLS_PAGE
             THEN declared(GenericDesktopControls_declared)
        ELSE IF usage.page = UsagePages_KEYBOARD_KEYPAD_PAGE
             THEN IF InRanges(usage.usage, KeyboardKeypad_SEL)
                  THEN [types |-> {"SEL"}]
                  ELSE IF InRanges(usage.usage, KeyboardKeypad_DV)
                  THEN [types |-> {"DV"}]
                  ELSE Raise("KeyError")
        ELSE IF usage.page = UsagePages_LED_PAGE THEN declared(Led_declared)
        ELSE IF usage.page = UsagePages_BUTTON_PAGE THEN declared(Button_declared)
        ELSE IF usage.page = UsagePages_CONSUMER_PAGE THEN declared(Consumer_declared)
        ELSE IF usage.page = UsagePages_FIDO_ALLIANCE_PAGE THEN declared(FIDO_declared)
        ELSE Raise("ValueError")            \* a page declared without sub-table

---------------------------------------------------------------------------
(* Usage and the item classes *)

\* Usage(page, usage): page and usage are Python values (None or an int)
\* bool(x) for x an int or None
Truthy(x) == x # None /\ Val(x) # 0

\* Usage.__init__ with its keyword argument: the object, or the ValueError
Usage_init(page, usage, extended_usage) ==
    IF Truthy(extended_usage) /\ Truthy(page) /\ Truthy(usage)
    THEN [err |-> "ValueError", msg |-> "You need to specify either"]
    ELSE IF extended_usage # None
    THEN [page |-> Shr(Val(extended_usage), 2 * 8),
          usage |-> BitAnd(Val(extended_usage), 65535)]
    ELSE IF page # None /\ usage # None
    THEN [page |-> Val(page), usage |-> Val(usage)]
    ELSE [err |-> "ValueError", msg |-> "No usage specified"]

\* The two fields packed the other way round
Usage_int_swapped(self) == BitOr(Shl(self.usage, 2 * 8), self.page)

\* Usage.__int__
Usage_int(self) == BitOr(Shl(self.page, 2 * 8), self.usage)

\* Usage.__eq__ for another Usage
Usage_eq(self, other) == self.page = other.page /\ self.usage = other.usage

\* Usage.__hash__: `self.usage << (2 * 8) + self.page` shifts by 16 + page;
\* the number is kept as its two operands, value << shift
Usage_hash(self) == [value |-> self.usage, shift |-> 2 * 8 + self.page]

Usage(page, usage) ==
    IF page # None /\ usage # None
    THEN [page |-> Val(page), usage |-> Val(usage)]
    ELSE Raise("ValueError")                \* 'No usage specified'

PaddingItem(offset, size) ==
    [cls |-> "PaddingItem", offset |-> offset, size |-> size]

VariableItem_INCOMPATIBLE_TYPES == {"SEL", "NARY", "CA", "CL", "CP", "US", "UM"}
ArrayItem_INCOMPATIBLE_TYPES ==
    {"LC", "OOC", "MC", "OSC", "RTC", "SV", "SF", "DV", "DF",
     "NARY", "CA", "CL", "CP", "US", "UM"}

\* The try block of VariableItem.__init__ and of ArrayItem.__init__'s loop:
\* whether it warns for this usage
WarnsIncompatible(usage, incompatible) ==
    LET ut == usage_types(usage)
    IN  IF Raised(ut) THEN FALSE ELSE ut.types \subseteq incompatible

\* MainItem's keyword arguments taken from the dict {**glob, **local}
HasRequiredArgs(data) == {"logical_min", "logical_max"} \subseteq DOMAIN data
OptionalArg(data, key) == IF key \in DOMAIN data THEN data[key] ELSE None

\* VariableItem(offset, size, flags, usage, **data): [item, warned] or the
\* TypeError of a call without logical_min / logical_max
VariableItem(offset, size, flags, usage, data) ==
    IF ~HasRequiredArgs(data) THEN Raise("TypeError")
    ELSE [item |-> [cls |-> "VariableItem", offset |-> offset, size |-> size,
                    flags |-> flags, usage |-> usage,
                    logical_min |-> data["logical_min"],
                    logical_max |-> data["logical_max"],
                    physical_min |-> OptionalArg(data, "physical_min"),
                    physical_max |-> OptionalArg(data, "physical_max")],
          warned |-> IF WarnsIncompatible(usage, VariableItem_INCOMPATIBLE_TYPES)
                     THEN <<"HIDComplianceWarning">> ELSE <<>>]

RECURSIVE ArrayItemWarnings(_)
ArrayItemWarnings(us) ==
    IF us = <<>> THEN <<>>
    ELSE (IF WarnsIncompatible(Head(us), ArrayItem_INCOMPATIBLE_TYPES)
          THEN <<"HIDComplianceWarning">> ELSE <<>>) \o ArrayItemWarnings(Tail(us))

\* ArrayItem(offset, size, count, flags, usages, **data)
ArrayItem(offset, size, count, flags, us, data) ==
    IF ~HasRequiredArgs(data) THEN Raise("TypeError")
    ELSE IF \E k \in 1..Len(us) : us[k].page # us[1].page
         THEN Raise("ValueError")           \* 'Mismatching usage page in usage'
    ELSE [item |-> [cls |-> "ArrayItem", offset |-> offset, size |-> size,
                    count |-> count, flags |-> flags, usages |-> us,
                    logical_min |-> data["logical_min"],
                    logical_max |-> data["logical_max"],
                    physical_min |-> OptionalArg(data, "physical_min"),
                    physical_max |-> OptionalArg(data, "physical_max")],
          warned |-> ArrayItemWarnings(us)]

---------------------------------------------------------------------------
(* ReportDescriptor._iterate_raw *)

\* The size code taken for the number of bytes
CalcSizeOfCode(size) == size

\* struct.calcsize('<' + '0bhl'[size]) for size in 1..3
CalcSize(size) == IF size = 3 THEN 4 ELSE size

\* struct.unpack('<b' | '<h' | '<l' | '<B' | '<H' | '<L', bytes)
Unpack(signed, bytes) ==
    LET n == Len(bytes)
        top == bytes[n]
        low == FromBytesLE(SubSeq(bytes, 1, n - 1))
        scale == Pow2(8 * (n - 1))
    IN  IF signed /\ top >= 128 THEN low + (top - 256) * scale
        ELSE low + top * scale

\* The generator without its check of the bytes left: it unpacks what is there
_iterate_raw_unchecked(data, i0) ==
    LET prefix == data[i0 + 1]
        size   == prefix % 4
        bytes  == PySlice(data, i0 + 1, i0 + 1 + CalcSize(size))
    IN  [typ |-> (prefix \div 4) % 4, tag |-> prefix \div 16,
         data |-> IF bytes = <<>> THEN None ELSE Some(FromBytesLE(bytes)),
         next |-> i0 + 1 + CalcSize(size)]

\* One turn of the generator's loop at index i0 < len(data): the token it
\* yields and the index of the next prefix, or the exception it raises
_iterate_raw(data, i0) ==
    LET prefix == data[i0 + 1]
        i1     == i0 + 1
        tag    == Shr(BitAnd(prefix, 240), 4)
        typ    == Shr(BitAnd(prefix, 12), 2)
        size   == BitAnd(prefix, 3)
    IN  IF size = 0
        THEN [typ |-> typ, tag |-> tag,
              data |-> IF typ = Type_MAIN THEN Some(0) ELSE None,
              next |-> i1]
        ELSE IF size > 3 THEN Raise("ValueError")
        ELSE LET nbytes == CalcSize(size)
             IN  IF i1 + nbytes > Len(data)
                 THEN Raise("InvalidReportDescriptor")
                 ELSE [typ |-> typ, tag |-> tag,
                       data |-> Some(Unpack(_item_is_signed(tag, typ),
                                            PySlice(data, i1, i1 + nbytes))),
                       next |-> i1 + nbytes]

---------------------------------------------------------------------------
(* Item pools: dict[Optional[int], list[BaseItem]], in insertion order *)

PoolKeys(pool) == [k \in 1..Len(pool) |-> pool[k].rid]
InPool(rid, pool) == \E k \in 1..Len(pool) : pool[k].rid = rid
PoolItems(pool, rid) == pool[CHOOSE k \in 1..Len(pool) : pool[k].rid = rid].items

\* ReportDescriptor._get_report_size
RECURSIVE _get_report_size(_)
_get_report_size(items) ==
    IF items = <<>> THEN 0
    ELSE (IF Head(items).cls = "ArrayItem"
          THEN Head(items).size * Head(items).count
          ELSE Head(items).size) + _get_report_size(Tail(items))

---------------------------------------------------------------------------
(* ReportDescriptor._append_item, _append_items *)

\* The same with the running offset of every report id moved
_append_item_all_ids(offset_list, pool, rid, item) ==
    [offset_list |-> [k \in DOMAIN offset_list |-> offset_list[k] + item.size],
     pool |-> IF InPool(rid, pool)
              THEN [k \in 1..Len(pool) |->
                      IF pool[k].rid = rid
                      THEN [pool[k] EXCEPT !.items = Append(@, item)]
                      ELSE pool[k]]
              ELSE Append(pool, [rid |-> rid, items |-> <<item>>])]

\* The same with a new report id put before the ids the pool holds
_append_item_first(offset_list, pool, rid, item) ==
    [offset_list |-> [offset_list EXCEPT ![rid] = @ + item.size],
     pool |-> IF InPool(rid, pool)
              THEN [k \in 1..Len(pool) |->
                      IF pool[k].rid = rid
                      THEN [pool[k] EXCEPT !.items = Append(@, item)]
                      ELSE pool[k]]
              ELSE <<[rid |-> rid, items |-> <<item>>]>> \o pool]

\* The offset list and the pool after the call
_append_item(offset_list, pool, rid, item) ==
    [offset_list |-> [offset_list EXCEPT ![rid] = @ + item.size],
     pool |-> IF InPool(rid, pool)
              THEN [k \in 1..Len(pool) |->
                      IF pool[k].rid = rid
                      THEN [pool[k] EXCEPT !.items = Append(@, item)]
                      ELSE pool[k]]
              ELSE Append(pool, [rid |-> rid, items |-> <<item>>])]

\* The same with the padding emitted as one item of n x size bits
AppendPaddingMerged(offset_list, pool, rid, n, size) ==
    IF n <= 0 THEN [offset_list |-> offset_list, pool |-> pool, warned |-> <<>>]
    ELSE LET r == _append_item(offset_list, pool, rid,
                               PaddingItem(offset_list[rid], n * size))
         IN  [offset_list |-> r.offset_list, pool |-> r.pool, warned |-> <<>>]

\* for _ in range(report_count): PaddingItem(...); self._append_item(...)
RECURSIVE AppendPaddingItems(_, _, _, _, _)
AppendPaddingItems(offset_list, pool, rid, n, size) ==
    IF n <= 0 THEN [offset_list |-> offset_list, pool |-> pool, warned |-> <<>>]
    ELSE LET r == _append_item(offset_list, pool, rid,
                               PaddingItem(offset_list[rid], size))
         IN  AppendPaddingItems(r.offset_list, r.pool, rid, n - 1, size)

\* for usage in usages: VariableItem(...); self._append_item(...)
RECURSIVE AppendVariableItems(_, _, _, _, _, _, _, _)
AppendVariableItems(offset_list, pool, w, rid, size, us, flags, data) ==
    IF us = <<>> THEN [offset_list |-> offset_list, pool |-> pool, warned |-> w]
    ELSE LET v == VariableItem(offset_list[rid], size, flags, Head(us), data)
         IN  IF Raised(v) THEN v
             ELSE LET r == _append_item(offset_list, pool, rid, v.item)
                  IN  AppendVariableItems(r.offset_list, r.pool, w \o v.warned,
                                          rid, size, Tail(us), flags, data)

\* [offset_list, pool, warned] after the call, or the exception it raises
_append_items(offset_list, pool, rid, count, size, us, flags, data) ==
    LET is_array == BitAnd(flags, 2) = 0
    IN  IF Len(us) = 0
        THEN AppendPaddingItems(offset_list, pool, rid, count, size)
        ELSE IF is_array
        THEN LET a == ArrayItem(offset_list[rid], size, count, flags, us, data)
             IN  IF Raised(a) THEN a
                 ELSE LET r == _append_item(offset_list, pool, rid, a.item)
                      IN  [offset_list |-> r.offset_list, pool |-> r.pool,
                           warned |-> a.warned]
        ELSE \* report_count = len(usages) when there are more usages than the
             \* count; `usages += [] * missing_usage_count` adds nothing
             AppendVariableItems(offset_list, pool,
                                 IF Len(us) # count
                                 THEN <<"HIDComplianceWarning">> ELSE <<>>,
                                 rid, size, us, flags, data)

---------------------------------------------------------------------------
(* ReportDescriptor._parse: the body of its loop for one token *)

\* The parser's state as one record: self's pools and _parse's locals
Locals ==
    [status |-> status, _input |-> _input, _output |-> _output,
     _feature |-> _feature, offset_input |-> offset_input,
     offset_output |-> offset_output, offset_feature |-> offset_feature,
     report_id |-> report_id, report_count |-> report_count,
     report_size |-> report_size, usage_page |-> usage_page, glob |-> glob,
     usages |-> usages, usage_min |-> usage_min, warned |-> warned]

\* _parse's locals and self's pools as __init__ leaves them before _parse()
InitialLocals ==
    [status |-> "parsing", _input |-> <<>>, _output |-> <<>>, _feature |-> <<>>,
     offset_input |-> (None :> 0), offset_output |-> (None :> 0),
     offset_feature |-> (None :> 0),
     report_id |-> None, report_count |-> None, report_size |-> None,
     usage_page |-> None, glob |-> << >>, usages |-> <<>>, usage_min |-> None,
     warned |-> <<>>]

\* An exception leaves _parse and __init__: the locals of _parse are gone and
\* no object is returned; the pools show what had been built by then
Fail(st, kind) ==
    [InitialLocals EXCEPT !.status = kind, !._input = st._input,
                          !._output = st._output, !._feature = st._feature]

\* _parse returns: its locals are gone, the object keeps the pools
Return(st) ==
    [InitialLocals EXCEPT !.status = "done", !._input = st._input,
                          !._output = st._output, !._feature = st._feature]

\* dict[key] = value
SetKey(dict, key, value) ==
    [k \in DOMAIN dict \cup {key} |-> IF k = key THEN value ELSE dict[k]]

\* The same with a new report id starting at the largest offset in the list
InitOffsetAfterOthers(offset_list, rid) ==
    IF rid \in DOMAIN offset_list THEN offset_list
    ELSE SetKey(offset_list, rid,
                CHOOSE m \in {offset_list[k] : k \in DOMAIN offset_list} :
                    \A k \in DOMAIN offset_list : offset_list[k] <= m)

\* if report_id not in offset_list: offset_list[report_id] = 0
InitOffset(offset_list, rid) ==
    IF rid \in DOMAIN offset_list THEN offset_list ELSE SetKey(offset_list, rid, 0)

\* The same loop over range(usage_min, data): the last usage left out
ExpandUsagesExclusive(us, page, lo, hi) ==
    IF lo > hi THEN [usages |-> us]
    ELSE IF Raised(Usage(page, Some(lo))) THEN Usage(page, Some(lo))
    ELSE [usages |-> us \o [k \in 1..(hi - lo) |->
                              Usage(page, Some(lo + k - 1))]]

\* for i in range(usage_min, data + 1): usages.append(Usage(usage_page, i));
\* every Usage(usage_page, i) of the loop raises, or none does
ExpandUsages(us, page, lo, hi) ==
    IF lo > hi THEN [usages |-> us]
    ELSE IF Raised(Usage(page, Some(lo))) THEN Usage(page, Some(lo))
    ELSE [usages |-> us \o [k \in 1..(hi - lo + 1) |->
                              Usage(page, Some(lo + k - 1))]]

\* ParseMain with the usage list left in place by Collection and End
\* Collection
ParseMainUsagesKept(st, tag, data) ==
    LET st1 == st
        cleared(s) == [s EXCEPT !.usages = <<>>, !.usage_min = None]
        args(offset_list, pool) ==
            _append_items(offset_list, pool, st1.report_id,
                          Val(st1.report_count), Val(st1.report_size),
                          st1.usages, Val(data), st1.glob)
    IN  IF tag \notin {TagMain_INPUT, TagMain_OUTPUT, TagMain_FEATURE}
        THEN st1                                             \* continue
        ELSE IF st1.report_count = None THEN Fail(st1, "InvalidReportDescriptor")
        ELSE IF st1.report_size = None THEN Fail(st1, "InvalidReportDescriptor")
        ELSE IF data = None THEN Fail(st1, "InvalidReportDescriptor")
        ELSE IF tag = TagMain_INPUT
        THEN LET r == args(st1.offset_input, st1._input)
             IN  IF Raised(r) THEN Fail(st1, r.err)
                 ELSE cleared([st1 EXCEPT !.offset_input = r.offset_list,
                                          !._input = r.pool,
                                          !.warned = r.warned])
        ELSE IF tag = TagMain_OUTPUT
        THEN LET r == args(st1.offset_output, st1._output)
             IN  IF Raised(r) THEN Fail(st1, r.err)
                 ELSE cleared([st1 EXCEPT !.offset_output = r.offset_list,
                                          !._output = r.pool,
                                          !.warned = r.warned])
        ELSE LET r == args(st1.offset_feature, st1._feature)
             IN  IF Raised(r) THEN Fail(st1, r.err)
                 ELSE cleared([st1 EXCEPT !.offset_feature = r.offset_list,
                                          !._feature = r.pool,
                                          !.warned = r.warned])

\* ParseMain with an item that lacks report size or report count passed over
ParseMainUnchecked(st, tag, data) ==
    LET st1 == IF tag \in {TagMain_COLLECTION, TagMain_END_COLLECTION}
               THEN [st EXCEPT !.usages = <<>>] ELSE st
        cleared(s) == [s EXCEPT !.usages = <<>>, !.usage_min = None]
        args(offset_list, pool) ==
            _append_items(offset_list, pool, st1.report_id,
                          Val(st1.report_count), Val(st1.report_size),
                          st1.usages, Val(data), st1.glob)
    IN  IF tag \notin {TagMain_INPUT, TagMain_OUTPUT, TagMain_FEATURE}
        THEN st1                                             \* continue
        ELSE IF st1.report_count = None THEN st1
        ELSE IF st1.report_size = None THEN st1
        ELSE IF data = None THEN Fail(st1, "InvalidReportDescriptor")
        ELSE IF tag = TagMain_INPUT
        THEN LET r == args(st1.offset_input, st1._input)
             IN  IF Raised(r) THEN Fail(st1, r.err)
                 ELSE cleared([st1 EXCEPT !.offset_input = r.offset_list,
                                          !._input = r.pool,
                                          !.warned = r.warned])
        ELSE IF tag = TagMain_OUTPUT
        THEN LET r == args(st1.offset_output, st1._output)
             IN  IF Raised(r) THEN Fail(st1, r.err)
                 ELSE cleared([st1 EXCEPT !.offset_output = r.offset_list,
                                          !._output = r.pool,
                                          !.warned = r.warned])
        ELSE LET r == args(st1.offset_feature, st1._feature)
             IN  IF Raised(r) THEN Fail(st1, r.err)
                 ELSE cleared([st1 EXCEPT !.offset_feature = r.offset_list,
                                          !._feature = r.pool,
                                          !.warned = r.warned])

ParseMain(st, tag, data) ==
    LET st1 == IF tag \in {TagMain_COLLECTION, TagMain_END_COLLECTION}
               THEN [st EXCEPT !.usages = <<>>] ELSE st
        cleared(s) == [s EXCEPT !.usages = <<>>, !.usage_min = None]
        args(offset_list, pool) ==
            _append_items(offset_list, pool, st1.report_id,
                          Val(st1.report_count), Val(st1.report_size),
                          st1.usages, Val(data), st1.glob)
    IN  IF tag \notin {TagMain_INPUT, TagMain_OUTPUT, TagMain_FEATURE}
        THEN st1                                             \* continue
        ELSE IF st1.report_count = None THEN Fail(st1, "InvalidReportDescriptor")
        ELSE IF st1.report_size = None THEN Fail(st1, "InvalidReportDescriptor")
        ELSE IF data = None THEN Fail(st1, "InvalidReportDescriptor")
        ELSE IF tag = TagMain_INPUT
        THEN LET r == args(st1.offset_input, st1._input)
             IN  IF Raised(r) THEN Fail(st1, r.err)
                 ELSE cleared([st1 EXCEPT !.offset_input = r.offset_list,
                                          !._input = r.pool,
                                          !.warned = r.warned])
        ELSE IF tag = TagMain_OUTPUT
        THEN LET r == args(st1.offset_output, st1._output)
             IN  IF Raised(r) THEN Fail(st1, r.err)
                 ELSE cleared([st1 EXCEPT !.offset_output = r.offset_list,
                                          !._output = r.pool,
                                          !.warned = r.warned])
        ELSE LET r == args(st1.offset_feature, st1._feature)
             IN  IF Raised(r) THEN Fail(st1, r.err)
                 ELSE cleared([st1 EXCEPT !.offset_feature = r.offset_list,
                                          !._feature = r.pool,
                                          !.warned = r.warned])

\* The same with the tags no branch names passed over
ParseGlobalLenient(st, tag, data) ==
    IF tag = TagGlobal_USAGE_PAGE THEN [st EXCEPT !.usage_page = data]
    ELSE IF tag = TagGlobal_LOGICAL_MINIMUM
    THEN [st EXCEPT !.glob = SetKey(@, "logical_min", data)]
    ELSE IF tag = TagGlobal_LOGICAL_MAXIMUM
    THEN [st EXCEPT !.glob = SetKey(@, "logical_max", data)]
    ELSE IF tag = TagGlobal_PHYSICAL_MINIMUM
    THEN [st EXCEPT !.glob = SetKey(@, "physical_min", data)]
    ELSE IF tag = TagGlobal_PHYSICAL_MAXIMUM
    THEN [st EXCEPT !.glob = SetKey(@, "physical_max", data)]
    ELSE IF tag = TagGlobal_REPORT_SIZE THEN [st EXCEPT !.report_size = data]
    ELSE IF tag = TagGlobal_REPORT_ID
    THEN \* `not report_id` holds for None and for 0
         IF (st.report_id = None \/ st.report_id = Some(0))
            /\ (st._input # <<>> \/ st._output # <<>> \/ st._feature # <<>>)
         THEN Fail(st, "InvalidReportDescriptor")
         ELSE [st EXCEPT !.report_id = data,
                         !.offset_input = InitOffset(@, data),
                         !.offset_output = InitOffset(@, data),
                         !.offset_feature = InitOffset(@, data)]
    ELSE IF tag \in {TagGlobal_UNIT, TagGlobal_UNIT_EXPONENT}
    THEN [st EXCEPT !.warned = <<"HIDUnsupportedWarning">>]
    ELSE IF tag = TagGlobal_REPORT_COUNT THEN [st EXCEPT !.report_count = data]
    ELSE st

\* The same with the unit kept among the globals
ParseGlobalUnitKept(st, tag, data) ==
    IF tag = TagGlobal_USAGE_PAGE THEN [st EXCEPT !.usage_page = data]
    ELSE IF tag = TagGlobal_LOGICAL_MINIMUM
    THEN [st EXCEPT !.glob = SetKey(@, "logical_min", data)]
    ELSE IF tag = TagGlobal_LOGICAL_MAXIMUM
    THEN [st EXCEPT !.glob = SetKey(@, "logical_max", data)]
    ELSE IF tag = TagGlobal_PHYSICAL_MINIMUM
    THEN [st EXCEPT !.glob = SetKey(@, "physical_min", data)]
    ELSE IF tag = TagGlobal_PHYSICAL_MAXIMUM
    THEN [st EXCEPT !.glob = SetKey(@, "physical_max", data)]
    ELSE IF tag = TagGlobal_REPORT_SIZE THEN [st EXCEPT !.report_size = data]
    ELSE IF tag = TagGlobal_REPORT_ID
    THEN \* `not report_id` holds for None and for 0
         IF (st.report_id = None \/ st.report_id = Some(0))
            /\ (st._input # <<>> \/ st._output # <<>> \/ st._feature # <<>>)
         THEN Fail(st, "InvalidReportDescriptor")
         ELSE [st EXCEPT !.report_id = data,
                         !.offset_input = InitOffset(@, data),
                         !.offset_output = InitOffset(@, data),
                         !.offset_feature = InitOffset(@, data)]
    ELSE IF tag \in {TagGlobal_UNIT, TagGlobal_UNIT_EXPONENT}
    THEN [st EXCEPT !.warned = <<"HIDUnsupportedWarning">>,
                    !.glob = SetKey(@, "unit", data)]
    ELSE IF tag = TagGlobal_REPORT_COUNT THEN [st EXCEPT !.report_count = data]
    ELSE Fail(st, "NotImplementedError")

ParseGlobal(st, tag, data) ==
    IF tag = TagGlobal_USAGE_PAGE THEN [st EXCEPT !.usage_page = data]
    ELSE IF tag = TagGlobal_LOGICAL_MINIMUM
    THEN [st EXCEPT !.glob = SetKey(@, "logical_min", data)]
    ELSE IF tag = TagGlobal_LOGICAL_MAXIMUM
    THEN [st EXCEPT !.glob = SetKey(@, "logical_max", data)]
    ELSE IF tag = TagGlobal_PHYSICAL_MINIMUM
    THEN [st EXCEPT !.glob = SetKey(@, "physical_min", data)]
    ELSE IF tag = TagGlobal_PHYSICAL_MAXIMUM
    THEN [st EXCEPT !.glob = SetKey(@, "physical_max", data)]
    ELSE IF tag = TagGlobal_REPORT_SIZE THEN [st EXCEPT !.report_size = data]
    ELSE IF tag = TagGlobal_REPORT_ID
    THEN \* `not report_id` holds for None and for 0
         IF (st.report_id = None \/ st.report_id = Some(0))
            /\ (st._input # <<>> \/ st._output # <<>> \/ st._feature # <<>>)
         THEN Fail(st, "InvalidReportDescriptor")
         ELSE [st EXCEPT !.report_id = data,
                         !.offset_input = InitOffset(@, data),
                         !.offset_output = InitOffset(@, data),
                         !.offset_feature = InitOffset(@, data)]
    ELSE IF tag \in {TagGlobal_UNIT, TagGlobal_UNIT_EXPONENT}
    THEN [st EXCEPT !.warned = <<"HIDUnsupportedWarning">>]
    ELSE IF tag = TagGlobal_REPORT_COUNT THEN [st EXCEPT !.report_count = data]
    ELSE Fail(st, "NotImplementedError")

\* ParseLocal with the pending minimum left in place by Usage Maximum
ParseLocalMinKept(st, tag, data) ==
    IF tag = TagLocal_USAGE
    THEN IF st.usage_page = None THEN Fail(st, "InvalidReportDescriptor")
         ELSE LET u == Usage(st.usage_page, data)
              IN  IF Raised(u) THEN Fail(st, u.err)
                  ELSE [st EXCEPT !.usages = Append(@, u)]
    ELSE IF tag = TagLocal_USAGE_MINIMUM THEN [st EXCEPT !.usage_min = data]
    ELSE IF tag = TagLocal_USAGE_MAXIMUM
    THEN IF st.usage_min = None THEN Fail(st, "InvalidReportDescriptor")
         ELSE IF data = None THEN Fail(st, "InvalidReportDescriptor")
         ELSE LET r == ExpandUsages(st.usages, st.usage_page,
                                    Val(st.usage_min), Val(data))
              IN  IF Raised(r) THEN Fail(st, r.err)
                  ELSE [st EXCEPT !.usages = r.usages]
    ELSE IF tag \in {TagLocal_STRING_INDEX, TagLocal_STRING_MINIMUM,
                     TagLocal_STRING_MAXIMUM}
    THEN st
    ELSE Fail(st, "NotImplementedError")

\* ParseLocal with every other Local tag passed over like the String tags
ParseLocalLenient(st, tag, data) ==
    IF tag = TagLocal_USAGE
    THEN IF st.usage_page = None THEN Fail(st, "InvalidReportDescriptor")
         ELSE LET u == Usage(st.usage_page, data)
              IN  IF Raised(u) THEN Fail(st, u.err)
                  ELSE [st EXCEPT !.usages = Append(@, u)]
    ELSE IF tag = TagLocal_USAGE_MINIMUM THEN [st EXCEPT !.usage_min = data]
    ELSE IF tag = TagLocal_USAGE_MAXIMUM
    THEN IF st.usage_min = None THEN Fail(st, "InvalidReportDescriptor")
         ELSE IF data = None THEN Fail(st, "InvalidReportDescriptor")
         ELSE LET r == ExpandUsages(st.usages, st.usage_page,
                                    Val(st.usage_min), Val(data))
              IN  IF Raised(r) THEN Fail(st, r.err)
                  ELSE [st EXCEPT !.usages = r.usages, !.usage_min = None]
    ELSE st

ParseLocal(st, tag, data) ==
    IF tag = TagLocal_USAGE
    THEN IF st.usage_page = None THEN Fail(st, "InvalidReportDescriptor")
         ELSE LET u == Usage(st.usage_page, data)
              IN  IF Raised(u) THEN Fail(st, u.err)
                  ELSE [st EXCEPT !.usages = Append(@, u)]
    ELSE IF tag = TagLocal_USAGE_MINIMUM THEN [st EXCEPT !.usage_min = data]
    ELSE IF tag = TagLocal_USAGE_MAXIMUM
    THEN IF st.usage_min = None THEN Fail(st, "InvalidReportDescriptor")
         ELSE IF data = None THEN Fail(st, "InvalidReportDescriptor")
         ELSE LET r == ExpandUsages(st.usages, st.usage_page,
                                    Val(st.usage_min), Val(data))
              IN  IF Raised(r) THEN Fail(st, r.err)
                  ELSE [st EXCEPT !.usages = r.usages, !.usage_min = None]
    ELSE IF tag \in {TagLocal_STRING_INDEX, TagLocal_STRING_MINIMUM,
                     TagLocal_STRING_MAXIMUM}
    THEN st
    ELSE Fail(st, "NotImplementedError")

\* One iteration of `for typ, tag, data in self._iterate_raw()`; a token of
\* the reserved type 3 matches no branch
_parse(st, typ, tag, data) ==
    LET st0 == [st EXCEPT !.warned = <<>>]
    IN  IF typ = Type_MAIN THEN ParseMain(st0, tag, data)
        ELSE IF typ = Type_GLOBAL THEN ParseGlobal(st0, tag, data)
        ELSE IF typ = Type_LOCAL THEN ParseLocal(st0, tag, data)
        ELSE st0

---------------------------------------------------------------------------
(* Decoding: VariableItem.parse, ArrayItem.parse, _parse_report_items,
   _parse_report *)

\* A decoded value, UsageValue.value or VendorUsageValue.list
BoolValue(b) == [kind |-> "bool", int |-> IF b THEN 1 ELSE 0, list |-> <<>>]
IntValue(n) == [kind |-> "int", int |-> n, list |-> <<>>]
ListValue(l) == [kind |-> "list", int |-> 0, list |-> l]

\* hid_parser.data.UsageTypesData, which src/hid_parser/data.py does not
\* define: the members UsageTypes groups under "# data"
UsageTypesData == {"SEL", "SV", "SF", "DF", "DV"}

\* VariableItem.preferred_state
preferred_state(item) == BitAnd(item.flags, 32) # 0

\* VariableItem.buffered_bytes, VariableItem.bitfield
buffered_bytes(item) == BitAnd(item.flags, Shl(1, 7)) # 0
bitfield(item) == BitAnd(item.flags, Shl(1, 7)) = 0

\* ReportDescriptor._get_main_item_desc(value): the fields it joins with ', '
_get_main_item_desc(value) ==
    <<IF BitAnd(value, Shl(1, 0)) # 0 THEN "Constant" ELSE "Data",
      IF BitAnd(value, Shl(1, 1)) # 0 THEN "Variable" ELSE "Array",
      IF BitAnd(value, Shl(1, 2)) # 0 THEN "Relative" ELSE "Absolute">>
    \o (IF BitAnd(value, Shl(1, 1)) # 0
        THEN <<IF BitAnd(value, Shl(1, 3)) # 0 THEN "Wrap" ELSE "No Wrap",
               IF BitAnd(value, Shl(1, 4)) # 0 THEN "Non Linear" ELSE "Linear",
               IF BitAnd(value, Shl(1, 5)) # 0
               THEN "No Preferred State" ELSE "Preferred State",
               IF BitAnd(value, Shl(1, 6)) # 0
               THEN "Null State" ELSE "No Null position",
               IF BitAnd(value, Shl(1, 8)) # 0
               THEN "Buffered Bytes" ELSE "Bit Field">>
        ELSE <<>>)

\* VariableItem.parse(data): the value, or the exception raised
VariableItem_parse(item, data) ==
    LET r    == _data_bit_shift(data, item.offset, item.size)
        bits == r.shifted
        ut   == usage_types(item.usage)
    IN  IF Raised(r) THEN r
        ELSE IF Raised(ut) THEN ut
        ELSE IF "LC" \in ut.types
                \/ \E t \in ut.types : t \in UsageTypesData /\ t # "SEL"
        THEN IntValue(FromBytesLE(bits))
        ELSE IF /\ "OOC" \in ut.types
                /\ ~preferred_state(item)
                /\ item.logical_min = Some(-1)
                /\ item.logical_max = Some(1)
        THEN BoolValue(FromBytesLE(bits) = 1)
        ELSE BoolValue(FromBytesLE(bits) # 0)

\* ArrayItem._page
ArrayItem_page(item) == IF item.usages = <<>> THEN None ELSE Some(item.usages[1].page)

InSeq(x, seq) == \E k \in 1..Len(seq) : seq[k] = x

\* ArrayItem.parse(data): slots i_ .. count - 1 added to usage_values, a
\* function from Usage to value; or the exception raised
RECURSIVE ArrayItem_parse_from(_, _, _, _)
ArrayItem_parse_from(item, data, i_, usage_values) ==
    IF i_ >= item.count THEN [map |-> usage_values]
    ELSE
    LET r     == _data_bit_shift(data, item.offset + i_ * 8, item.size)
        aligned_data == r.shifted
        value == FromBytesLE(aligned_data)
        usage == Usage(ArrayItem_page(item), Some(value))
        ut    == usage_types(usage)
        next(uv) == ArrayItem_parse_from(item, data, i_ + 1, uv)
    IN  IF Raised(r) THEN r
        ELSE IF Raised(usage) THEN usage
        ELSE IF usage = [page |-> UsagePages_KEYBOARD_KEYPAD_PAGE,
                         usage |-> KeyboardKeypad_NO_EVENT]
        THEN next(usage_values)
        ELSE IF InVendorPage(usage.page)
        THEN LET first == IF usage \in DOMAIN usage_values
                          THEN usage_values[usage].list
                          ELSE IF value # 0 THEN <<value>> ELSE <<>>
             IN  next(SetKey(usage_values, usage, ListValue(Append(first, value))))
        ELSE IF InSeq(usage, item.usages)
        THEN IF Raised(ut) THEN ut
             ELSE IF \A t \in ut.types : t \notin ArrayItem_INCOMPATIBLE_TYPES
             THEN next(SetKey(usage_values, usage, BoolValue(TRUE)))
             ELSE next(usage_values)
        ELSE next(usage_values)

ArrayItem_parse(item, data) == ArrayItem_parse_from(item, data, 0, << >>)

\* dict.update
Update(dict, other) ==
    [k \in DOMAIN dict \cup DOMAIN other |->
        IF k \in DOMAIN other THEN other[k] ELSE dict[k]]

\* ReportDescriptor._parse_report_items: [map, warned], or the exception raised
RECURSIVE ParseReportItemsFrom(_, _, _, _)
ParseReportItemsFrom(items, data, map, w) ==
    IF items = <<>> THEN [map |-> map, warned |-> w]
    ELSE
    LET item == Head(items)
    IN  IF item.cls = "VariableItem"
        THEN LET v == VariableItem_parse(item, data)
             IN  IF Raised(v) THEN v
                 ELSE ParseReportItemsFrom(Tail(items), data,
                                           SetKey(map, item.usage, v), w)
        ELSE IF item.cls = "ArrayItem"
        THEN LET uv == ArrayItem_parse(item, data)
             IN  IF Raised(uv) THEN uv
                 ELSE ParseReportItemsFrom(
                        Tail(items), data, Update(map, uv.map),
                        w \o [k \in 1..Cardinality(DOMAIN uv.map \cap DOMAIN map)
                                |-> "HIDReportWarning"])
        ELSE ParseReportItemsFrom(Tail(items), data, map, w)

_parse_report_items(items, data) == ParseReportItemsFrom(items, data, << >>, <<>>)

\* _parse_report with an empty mapping for a report id the pool lacks
_parse_report_lenient(item_poll, data) ==
    IF InPool(None, item_poll)
    THEN _parse_report_items(PoolItems(item_poll, None), data)
    ELSE IF data = <<>> THEN Raise("IndexError")
    ELSE IF ~InPool(Some(data[1]), item_poll) THEN [map |-> << >>, warned |-> <<>>]
    ELSE _parse_report_items(PoolItems(item_poll, Some(data[1])), Tail(data))

\* ReportDescriptor._parse_report(item_poll, data)
_parse_report(item_poll, data) ==
    IF InPool(None, item_poll)
    THEN _parse_report_items(PoolItems(item_poll, None), data)
    ELSE IF data = <<>> THEN Raise("IndexError")
    ELSE IF ~InPool(Some(data[1]), item_poll) THEN Raise("KeyError")
    ELSE _parse_report_items(PoolItems(item_poll, Some(data[1])), Tail(data))

---------------------------------------------------------------------------
(* Bounds of the model *)

MaxItems == 2         \* items a descriptor declares, over the three pools
MaxUsages == 2        \* usages pending in the local usage list
MaxBufLen == 2        \* bytes of a buffer handed to _data_bit_shift

\* The items of a descriptor, as the bytes of each: a prefix and its data.
\* A chunk shorter than its prefix declares is where the buffer ends.
Chunks ==
    {<<5, 7>>,            \* Usage Page (Keyboard/Keypad)
     <<21, 0>>,           \* Logical Minimum (0)
     <<37, 1>>,           \* Logical Maximum (1)
     <<117, 8>>,          \* Report Size (8)
     <<149, 2>>,          \* Report Count (2)
     <<133, 1>>,          \* Report ID (1)
     <<132>>,             \* Report ID, no data
     <<164>>,             \* Push
     <<180>>,             \* Pop
     <<9, 4>>,            \* Usage (Keyboard a and A)
     <<8>>,               \* Usage, no data
     <<25, 4>>,           \* Usage Minimum (4)
     <<41, 5>>,           \* Usage Maximum (5)
     <<129, 0>>,          \* Input (Data,Array,Abs)
     <<129, 2>>,          \* Input (Data,Var,Abs)
     <<145, 2>>,          \* Output (Data,Var,Abs)
     <<177, 0>>,          \* Feature (Data,Array,Abs)
     <<161, 1>>,          \* Collection (Application)
     <<192>>,             \* End Collection
     <<38, 255>>}         \* Logical Maximum, 2 bytes declared, 1 left

\* The byte values buffers are made of
ByteValues == {0, 1, 68, 128, 165, 255}

\* Every sequence over S of length lo..hi
SeqsOf(S, lo, hi) == UNION {[1..n -> S] : n \in lo..hi}

ItemCount(pool) == SeqSum([k \in 1..Len(pool) |-> Len(pool[k].items)])

\* The descriptors the model explores declare at most max_items items and
\* never hold more than max_usages usages pending
WithinBounds(st, max_items, max_usages) ==
    /\ ItemCount(st._input) + ItemCount(st._output) + ItemCount(st._feature)
         <= max_items
    /\ Len(st.usages) <= max_usages

---------------------------------------------------------------------------
(* Actions *)

parser_vars == <<_input, _output, _feature, offset_input, offset_output,
                 offset_feature, report_id, report_count, report_size,
                 usage_page, glob, usages, usage_min, warned>>
call_vars == <<report, parsed, shift_args, shifted, token, bitnumber,
               usage_objs, main_item>>

SetLocals(st) ==
    /\ status' = st.status
    /\ _input' = st._input
    /\ _output' = st._output
    /\ _feature' = st._feature
    /\ offset_input' = st.offset_input
    /\ offset_output' = st.offset_output
    /\ offset_feature' = st.offset_feature
    /\ report_id' = st.report_id
    /\ report_count' = st.report_count
    /\ report_size' = st.report_size
    /\ usage_page' = st.usage_page
    /\ glob' = st.glob
    /\ usages' = st.usages
    /\ usage_min' = st.usage_min
    /\ warned' = st.warned

\* _iterate_raw at index i0 of data, and _parse on the token it yields
ParseAt(st, data, i0) ==
    LET tok == _iterate_raw(data, i0)
    IN  IF Raised(tok) THEN Fail(st, tok.err)
        ELSE _parse(st, tok.typ, tok.tag, tok.data)

\* The same for an item given as its own bytes
ParseChunk(st, chunk) == ParseAt(st, chunk, 0)

InitCommon ==
    /\ status = "new"
    /\ _input = <<>> /\ _output = <<>> /\ _feature = <<>>
    /\ offset_input = (None :> 0)
    /\ offset_output = (None :> 0)
    /\ offset_feature = (None :> 0)
    /\ report_id = None /\ report_count = None /\ report_size = None
    /\ usage_page = None /\ glob = << >> /\ usages = <<>> /\ usage_min = None
    /\ warned = <<>>
    /\ i = 0
    /\ report = None /\ parsed = None /\ token = None /\ bitnumber = None
    /\ usage_objs = None /\ main_item = None

\* ReportDescriptor.__init__ up to the call of _parse, for a buffer the
\* environment supplies item by item: every element is a byte, or one is not
Construct ==
    /\ status = "new"
    /\ \E all_bytes \in BOOLEAN :
         status' = IF all_bytes THEN "parsing" ELSE "InvalidReportDescriptor"
    /\ UNCHANGED <<parser_vars, rdesc, i, call_vars>>

\* _iterate_raw yields the next item of the buffer and _parse handles it
ParseItem(menu, max_items, max_usages) ==
    /\ status = "parsing"
    /\ \E chunk \in menu :
         LET st == ParseChunk(Locals, chunk)
         IN  /\ WithinBounds(st, max_items, max_usages)
             /\ SetLocals(st)
    /\ UNCHANGED <<rdesc, i, call_vars>>

\* _iterate_raw's loop ends, _parse and __init__ return
EndOfData ==
    /\ status = "parsing"
    /\ SetLocals(Return(Locals))
    /\ UNCHANGED <<rdesc, i, call_vars>>

\* The same three steps for a buffer given up front, rdesc
ConstructGiven ==
    /\ status = "new"
    /\ status' = IF \A k \in 1..Len(rdesc) : ~(rdesc[k] < 0 \/ rdesc[k] > 255)
                 THEN "parsing" ELSE "InvalidReportDescriptor"
    /\ UNCHANGED <<parser_vars, rdesc, i, call_vars>>

ParseGivenItem ==
    /\ status = "parsing"
    /\ i < Len(rdesc)
    /\ LET tok == _iterate_raw(rdesc, i)
       IN  /\ SetLocals(ParseAt(Locals, rdesc, i))
           /\ i' = IF Raised(tok) THEN i ELSE tok.next
    /\ UNCHANGED <<rdesc, call_vars>>

EndOfGivenData ==
    /\ status = "parsing"
    /\ ~(i < Len(rdesc))
    /\ SetLocals(Return(Locals))
    /\ UNCHANGED <<rdesc, i, call_vars>>

\* parse_input_report, parse_output_report, parse_feature_report
PoolOf(name) ==
    IF name = "input" THEN _input
    ELSE IF name = "output" THEN _output
    ELSE _feature

\* A decode call that drops the input pool when it fails
ParseReportDropping(payloads) ==
    /\ status = "done"
    /\ \E name \in {"input", "output", "feature"}, data \in payloads :
         /\ report' = [pool |-> name, data |-> data]
         /\ parsed' = _parse_report(PoolOf(name), data)
         /\ _input' = IF Raised(_parse_report(PoolOf(name), data))
                      THEN <<>> ELSE _input
    /\ UNCHANGED <<status, _output, _feature, offset_input, offset_output,
                   offset_feature, report_id, report_count, report_size,
                   usage_page, glob, usages, usage_min, warned, rdesc, i,
                   shift_args, shifted, token, bitnumber, usage_objs, main_item>>

ParseReport(payloads) ==
    /\ status = "done"
    /\ \E name \in {"input", "output", "feature"}, data \in payloads :
         /\ report' = [pool |-> name, data |-> data]
         /\ parsed' = _parse_report(PoolOf(name), data)
    /\ UNCHANGED <<status, parser_vars, rdesc, i, shift_args, shifted, token,
                   bitnumber, usage_objs, main_item>>

\* A call of _data_bit_shift
DataBitShift ==
    /\ shift_args # None
    /\ shifted = None
    /\ shifted' = _data_bit_shift(shift_args.data, shift_args.offset,
                                  shift_args.length)
    /\ UNCHANGED <<status, parser_vars, rdesc, i, report, parsed, shift_args,
                   token, bitnumber, usage_objs, main_item>>

---------------------------------------------------------------------------
(* Spec: construction from any sequence of the items of Chunks *)

Init == InitCommon /\ rdesc = <<>> /\ shift_args = None /\ shifted = None

Next == Construct \/ ParseItem(Chunks, MaxItems, MaxUsages) \/ EndOfData

Spec == Init /\ [][Next]_vars

---------------------------------------------------------------------------
(* SpecSlice: _data_bit_shift on every buffer of at most MaxBufLen bytes *)

InitSlice ==
    /\ InitCommon /\ rdesc = <<>>
    /\ shift_args \in [data : SeqsOf(ByteValues, 0, MaxBufLen),
                       offset : 0..(8 * MaxBufLen),
                       length : 0..(8 * MaxBufLen + 1)]
    /\ shifted = None

NextSlice == DataBitShift

SpecSlice == InitSlice /\ [][NextSlice]_vars

---------------------------------------------------------------------------
(* SpecLocal: construction from the items of a buttons report, with room for
   one more item and one more pending usage than Spec *)

LocalChunks ==
    {<<5, 9>>,            \* Usage Page (Button)
     <<21, 0>>,           \* Logical Minimum (0)
     <<37, 1>>,           \* Logical Maximum (1)
     <<117, 1>>,          \* Report Size (1)
     <<149, 3>>,          \* Report Count (3)
     <<9, 1>>,            \* Usage (Button 1)
     <<25, 1>>,           \* Usage Minimum (1)
     <<41, 2>>,           \* Usage Maximum (2)
     <<41, 3>>,           \* Usage Maximum (3)
     <<129, 2>>,          \* Input (Data,Var,Abs)
     <<161, 0>>,          \* Collection (Physical)
     <<101, 1>>,          \* Unit (1)
     <<85, 0>>,           \* Unit Exponent (0)
     <<121, 1>>,          \* String Index (1)
     <<137, 1>>,          \* String Minimum (1)
     <<153, 2>>,          \* String Maximum (2)
     <<57, 1>>,           \* Designator Index (1)
     <<73, 1>>,           \* Designator Minimum (1)
     <<89, 2>>,           \* Designator Maximum (2)
     <<169, 1>>}          \* Delimiter (open set)

NextLocal ==
    Construct \/ ParseItem(LocalChunks, MaxItems + 1, MaxUsages + 1) \/ EndOfData

SpecLocal == Init /\ [][NextLocal]_vars

---------------------------------------------------------------------------
(* SpecGiven: a descriptor given up front, built and then decoded. The
   descriptors are the mouse descriptor of the tests, a keyboard with
   numbered reports and a one-field unnumbered report, each cut at every
   length *)

simple_mouse_rdesc ==
    <<5, 1, 9, 2, 161, 1, 9, 2, 161, 2, 9, 1, 161, 0,
      5, 9, 25, 1, 41, 3, 21, 0, 37, 1, 117, 1, 149, 3, 129, 2,
      117, 5, 149, 1, 129, 3,
      5, 1, 9, 48, 9, 49, 21, 129, 37, 127, 117, 8, 149, 2, 129, 6,
      192, 192, 192>>

numbered_keyboard_rdesc ==
    <<5, 7, 133, 1, 21, 0, 37, 1,
      117, 1, 149, 2, 25, 224, 41, 225, 129, 2,    \* LeftControl, LeftShift
      117, 6, 149, 1, 129, 1,                      \* 6 bits of padding
      117, 8, 149, 2, 38, 255, 0, 25, 4, 41, 5, 129, 0,   \* 2 key slots
      133, 2, 117, 8, 149, 1, 9, 226, 145, 2>>     \* report 2, output

unnumbered_rdesc ==
    <<5, 7, 21, 0, 38, 255, 0, 117, 8, 149, 1, 9, 224, 129, 2>>

\* One usage declared by three variable and two array fields
duplicate_usage_rdesc ==
    <<5, 7, 21, 0, 37, 1, 117, 8, 149, 1,
      9, 4, 129, 2,                 \* Usage (a), Input (Data,Var,Abs)
      9, 4, 129, 2,                 \* the same again
      25, 4, 41, 5, 129, 0,         \* Usage Min (a), Max (b), Input (Array)
      9, 4, 129, 2,                 \* Usage (a), Input (Data,Var,Abs)
      9, 5, 129, 0>>                \* Usage (b), Input (Array)

\* Usage Page (Keyboard), Usage Minimum (0), Usage Maximum (0xFFFF)
wide_range_rdesc == <<5, 7, 25, 0, 42, 255, 255>>

\* A field under report id 0, then Report ID (1)
report_id_zero_rdesc ==
    <<5, 7, 21, 0, 37, 1, 117, 8, 149, 1,
      133, 0,                       \* Report ID (0)
      9, 4, 129, 2,                 \* Usage (a), Input (Data,Var,Abs)
      133, 1>>                      \* Report ID (1)

\* An array of two 16-bit slots
wide_array_rdesc ==
    <<5, 7, 21, 0, 38, 255, 0,
      117, 16, 149, 2,              \* Report Size (16), Report Count (2)
      25, 4, 41, 5, 129, 0>>        \* Usage Min (a), Max (b), Input (Array)

\* An array of two slots on the vendor page 0xFF00
vendor_array_rdesc ==
    <<6, 0, 255, 21, 0, 38, 255, 0, 117, 8, 149, 2,
      25, 1, 41, 2, 129, 0>>

\* Report 1 holds an array of two slots; report 2 is filled, then report 1
\* is selected again and gets one more item
reselected_rdesc ==
    <<5, 7, 21, 0, 37, 1, 117, 8, 149, 2,
      133, 1, 25, 4, 41, 5, 129, 0,    \* Report ID (1), a..b, Input (Array)
      133, 2, 149, 1, 9, 4, 129, 2,    \* Report ID (2), Count (1), a, Input (Var)
      133, 1, 9, 4, 129, 2>>           \* Report ID (1), a, Input (Var)

\* An array Input item whose two usages are on different usage pages
mixed_page_rdesc ==
    <<5, 7, 9, 4, 5, 9, 9, 1,          \* Keyboard a, Button 1
      21, 0, 37, 1, 117, 8, 149, 1, 129, 0>>

\* Two 4-bit paddings, one button, a 7-bit padding
padded_rdesc ==
    <<117, 4, 149, 2, 129, 1,          \* Size (4), Count (2), Input (Const)
      5, 9, 9, 1, 21, 0, 37, 1, 117, 1, 149, 1, 129, 2,
      117, 7, 129, 3>>                 \* Size (7), Input (Const,Var)

\* Input, Output and Feature items with no report size or no report count:
\* never declared, or declared last by an item with no data
missing_size_count_rdescs ==
    {<<117, 8, 145, 2>>,                     \* Size, Output
     <<149, 1, 177, 2>>,                     \* Count, Feature
     <<117, 8, 149, 1, 148, 129, 1>>,        \* Count with no data, Input
     <<5, 9, 9, 1, 21, 0, 37, 1, 149, 1, 117, 1, 129, 2,
       116, 9, 1, 129, 2>>}                  \* Size with no data, Input

\* Three usages for a report count of 1, then one more Input item
grown_count_rdesc ==
    <<5, 9, 21, 0, 37, 1, 117, 1, 149, 1,
      25, 1, 41, 3, 129, 2,            \* Buttons 1..3, Input (Var)
      9, 1, 129, 2>>                   \* Button 1, Input (Var)

Prefixes(seq) == {SubSeq(seq, 1, n) : n \in 0..Len(seq)}

GivenDescriptors ==
    Prefixes(simple_mouse_rdesc) \cup Prefixes(numbered_keyboard_rdesc)
        \cup Prefixes(unnumbered_rdesc) \cup Prefixes(duplicate_usage_rdesc)
        \cup Prefixes(wide_range_rdesc) \cup Prefixes(report_id_zero_rdesc)
        \cup Prefixes(wide_array_rdesc) \cup Prefixes(vendor_array_rdesc)
        \cup Prefixes(reselected_rdesc) \cup Prefixes(mixed_page_rdesc)
        \cup Prefixes(padded_rdesc) \cup Prefixes(grown_count_rdesc)
        \cup UNION {Prefixes(d) : d \in missing_size_count_rdescs}

Payloads ==
    SeqsOf({0, 1, 2, 5}, 0, 2)
        \cup {<<5, 10, 251>>, <<0, 0, 0>>}
        \cup {<<1, b, k1, k2>> : b \in {0, 3}, k1 \in {0, 4, 5}, k2 \in {0, 4, 5}}
        \cup {<<4, 0, 0, 0, 0>>, <<0, 0, 4, 0, 0>>, <<0, 0, 0, 4, 0>>,
              <<0, 0, 5, 0, 5>>, <<4, 4, 4, 4, 4>>, <<4, 0, 5, 0>>}

InitGiven ==
    /\ InitCommon /\ rdesc \in GivenDescriptors
    /\ shift_args = None /\ shifted = None

NextGiven ==
    ConstructGiven \/ ParseGivenItem \/ EndOfGivenData \/ ParseReport(Payloads)

SpecGiven == InitGiven /\ [][NextGiven]_vars

---------------------------------------------------------------------------
(* SpecToken: _iterate_raw alone, on buffers that start with any prefix
   byte *)

\* The data bytes items are given
DataBytes == {1, 129}

\* The five 4-byte items whose data is read as signed
SignedLongPrefixes == {23, 39, 55, 71, 87}

\* The data of an item with this prefix: as many bytes as its size code
\* says; the top bit of a 4-byte value is set only where the value is read
\* as signed, since the others do not fit TLC's 32-bit integers
DataOf(prefix) ==
    IF prefix % 4 = 0 THEN {<<>>}
    ELSE IF prefix % 4 = 1 THEN {<<b>> : b \in DataBytes}
    ELSE IF prefix % 4 = 2 THEN {<<b, c>> : b \in DataBytes, c \in DataBytes}
    ELSE {<<b, c, 1, d>> :
            b \in DataBytes, c \in DataBytes,
            d \in IF prefix \in SignedLongPrefixes THEN {127, 129} ELSE {127}}

\* One item of any prefix, then a Report ID item, cut at any byte
TokenBuffers ==
    UNION {UNION {Prefixes(<<prefix>> \o d \o <<133, 129>>) \ {<<>>} :
                    d \in DataOf(prefix)} : prefix \in 0..255}

\* One turn of the loop of _iterate_raw: it yields a token and moves to the
\* next prefix, or raises
NextToken ==
    /\ status = "iterating"
    /\ i < Len(rdesc)
    /\ token' = _iterate_raw(rdesc, i)
    /\ IF Raised(_iterate_raw(rdesc, i))
       THEN status' = _iterate_raw(rdesc, i).err /\ i' = i
       ELSE status' = status /\ i' = _iterate_raw(rdesc, i).next
    /\ UNCHANGED <<parser_vars, rdesc, report, parsed, shift_args, shifted,
                   bitnumber, usage_objs, main_item>>

InitToken ==
    /\ status = "iterating"
    /\ _input = <<>> /\ _output = <<>> /\ _feature = <<>>
    /\ offset_input = (None :> 0)
    /\ offset_output = (None :> 0)
    /\ offset_feature = (None :> 0)
    /\ report_id = None /\ report_count = None /\ report_size = None
    /\ usage_page = None /\ glob = << >> /\ usages = <<>> /\ usage_min = None
    /\ warned = <<>>
    /\ rdesc \in TokenBuffers /\ i = 0 /\ token = None /\ bitnumber = None
    /\ usage_objs = None /\ main_item = None
    /\ report = None /\ parsed = None
    /\ shift_args = None /\ shifted = None

SpecToken == InitToken /\ [][NextToken]_vars

---------------------------------------------------------------------------
(* SpecBits: BitNumber(n).byte and .bit for every n up to MaxBitNumber *)

MaxBitNumber == 1024

\* b = BitNumber(n); b.byte; b.bit
ReadBitNumber ==
    /\ bitnumber # None
    /\ bitnumber.byte = None
    /\ bitnumber' = [bitnumber EXCEPT
                       !.byte = Some(BitNumber_byte(bitnumber._value)),
                       !.bit = Some(BitNumber_bit(bitnumber._value))]
    /\ UNCHANGED <<status, parser_vars, rdesc, i, report, parsed, shift_args,
                   shifted, token, usage_objs, main_item>>

InitBits ==
    /\ status = "new"
    /\ _input = <<>> /\ _output = <<>> /\ _feature = <<>>
    /\ offset_input = (None :> 0)
    /\ offset_output = (None :> 0)
    /\ offset_feature = (None :> 0)
    /\ report_id = None /\ report_count = None /\ report_size = None
    /\ usage_page = None /\ glob = << >> /\ usages = <<>> /\ usage_min = None
    /\ warned = <<>>
    /\ rdesc = <<>> /\ i = 0 /\ token = None
    /\ report = None /\ parsed = None
    /\ shift_args = None /\ shifted = None
    /\ bitnumber \in [_value : 0..MaxBitNumber, byte : {None}, bit : {None}]
    /\ usage_objs = None /\ main_item = None

SpecBits == InitBits /\ [][ReadBitNumber]_vars

---------------------------------------------------------------------------
(* SpecUsage: two Usage objects made from any arguments, the second one
   also from int() of the first *)

\* The arguments Usage is called with; pages stay below 0x8000 so that
\* page << 16 fits TLC's 32-bit integers
PageArgs == {None, Some(0), Some(1), Some(32767)}
UsageArgs == {None, Some(0), Some(1), Some(65535)}
ExtendedArgs == {None, Some(0), Some(65537), Some(2147483647)}

\* One call of Usage(page, usage, extended_usage=...)
UsageCall(page, usage, extended_usage) ==
    [page |-> page, usage |-> usage, extended_usage |-> extended_usage,
     made |-> Usage_init(page, usage, extended_usage)]

\* a = Usage(...), then b = Usage(...)
MakeUsage ==
    /\ usage_objs # None
    /\ \E slot \in {"a", "b"}, page \in PageArgs, usage \in UsageArgs,
          extended_usage \in ExtendedArgs :
         /\ usage_objs[slot] = None
         /\ slot = "b" => usage_objs["a"] # None
         /\ usage_objs' = [usage_objs EXCEPT
                             ![slot] = UsageCall(page, usage, extended_usage)]
    /\ UNCHANGED <<status, parser_vars, rdesc, i, report, parsed, shift_args,
                   shifted, token, bitnumber, main_item>>

\* b = Usage(extended_usage=int(a))
RepackUsage ==
    /\ usage_objs # None
    /\ usage_objs["a"] # None /\ usage_objs["b"] = None
    /\ ~Raised(usage_objs["a"].made)
    /\ usage_objs' = [usage_objs EXCEPT
                        !["b"] = UsageCall(None, None,
                                           Some(Usage_int(usage_objs["a"].made)))]
    /\ UNCHANGED <<status, parser_vars, rdesc, i, report, parsed, shift_args,
                   shifted, token, bitnumber, main_item>>

InitUsage ==
    /\ status = "new"
    /\ _input = <<>> /\ _output = <<>> /\ _feature = <<>>
    /\ offset_input = (None :> 0)
    /\ offset_output = (None :> 0)
    /\ offset_feature = (None :> 0)
    /\ report_id = None /\ report_count = None /\ report_size = None
    /\ usage_page = None /\ glob = << >> /\ usages = <<>> /\ usage_min = None
    /\ warned = <<>>
    /\ rdesc = <<>> /\ i = 0 /\ token = None
    /\ report = None /\ parsed = None
    /\ shift_args = None /\ shifted = None /\ bitnumber = None
    /\ usage_objs = [slot \in {"a", "b"} |-> None]
    /\ main_item = None

NextUsage == MakeUsage \/ RepackUsage

SpecUsage == InitUsage /\ [][NextUsage]_vars

---------------------------------------------------------------------------
(* SpecFlags: the flag properties of a VariableItem and the description of
   the same flags, for every value of the nine flag bits *)

FlagValues == 0..(Shl(1, 9) - 1)

\* item = VariableItem(0, 0, value, Usage(0x0001, 0x0030), -1, 1);
\* item.buffered_bytes, item.bitfield, _get_main_item_desc(value)
DescribeFlags ==
    /\ \E value \in FlagValues :
         LET item == VariableItem(0, 0, value, [page |-> 1, usage |-> 48],
                                  ("logical_min" :> Some(-1))
                                    @@ ("logical_max" :> Some(1))).item
         IN  main_item' = [flags |-> value,
                           buffered_bytes |-> buffered_bytes(item),
                           bitfield |-> bitfield(item),
                           desc |-> _get_main_item_desc(value)]
    /\ UNCHANGED <<status, parser_vars, rdesc, i, report, parsed, shift_args,
                   shifted, token, bitnumber, usage_objs>>

InitFlags == InitCommon /\ rdesc = <<>> /\ shift_args = None /\ shifted = None

NextFlags == DescribeFlags

SpecFlags == InitFlags /\ [][NextFlags]_vars

---------------------------------------------------------------------------
(* SpecItem: construction from the buffers of SpecToken, whose first item
   has any prefix byte *)

InitItem ==
    /\ InitCommon /\ rdesc \in TokenBuffers
    /\ shift_args = None /\ shifted = None

NextItem == ConstructGiven \/ ParseGivenItem \/ EndOfGivenData

SpecItem == InitItem /\ [][NextItem]_vars

---------------------------------------------------------------------------
(* Properties of _data_bit_shift, checked under SpecSlice *)

\* C1: for every buffer, bit offset and bit length with length > 0 and
\* offset + length <= 8 * len(buffer), the bytes _data_bit_shift returns, read
\* as an unsigned little-endian integer, equal
\* (little-endian integer of the buffer >> offset) & (2^length - 1)
C1_SliceIsShiftAndMask ==
    (/\ shifted # None
     /\ shift_args.length > 0
     /\ shift_args.offset + shift_args.length <= 8 * Len(shift_args.data))
    => /\ ~Raised(shifted)
       /\ FromBytesLE(shifted.shifted)
            = (FromBytesLE(shift_args.data) \div Pow2(shift_args.offset))
                % Pow2(shift_args.length)

---------------------------------------------------------------------------
(* Properties of construction, checked under Spec *)

Pools == {_input, _output, _feature}

\* The bits an item takes in its report
ItemWidth(item) ==
    IF item.cls = "ArrayItem" THEN item.size * item.count ELSE item.size

\* The items start at bit 0 and each starts where the one before it ends
Contiguous(items) ==
    /\ items[1].offset = 0
    /\ \A k \in 2..Len(items) :
         items[k].offset = items[k - 1].offset + ItemWidth(items[k - 1])

\* C2: after construction, in every pool and for every report id, the first
\* item has offset 0 and every later item's offset is the previous item's
\* offset plus the previous item's total width (size for Padding and Variable
\* items, size x count for an ArrayItem)
C2_ItemsContiguous ==
    status = "done"
    => \A pool \in Pools : \A k \in 1..Len(pool) : Contiguous(pool[k].items)

\* C3: when construction succeeds, no pool holds both the unnumbered key
\* (no report id) and a numbered report id
C3_NoMixedPool ==
    status = "done"
    => \A pool \in Pools :
         ~(InPool(None, pool) /\ \E k \in 1..Len(pool) : pool[k].rid # None)

\* C4: construction succeeds or fails with InvalidReportDescriptor or
\* NotImplementedError; no other kind of exception leaves it
C4_OnlyDeclaredErrors ==
    status \in {"new", "parsing", "done",
                "InvalidReportDescriptor", "NotImplementedError"}

\* The bits of report rid in a pool, as get_input_report_size and its like
\* return them (0 when the pool has no such report here)
ReportSize(pool, rid) ==
    IF InPool(rid, pool) THEN _get_report_size(PoolItems(pool, rid)) ELSE 0

ReportIds(pool) == {pool[k].rid : k \in 1..Len(pool)}

\* A step leaves pool p as q but for report rid, which grows by bits
GrowsBy(p, q, rid, bits) ==
    /\ ReportSize(q, rid) = ReportSize(p, rid) + bits
    /\ \A r \in (ReportIds(p) \cup ReportIds(q)) \ {rid} :
         ReportSize(q, r) = ReportSize(p, r)

\* C6: the size of every report is the sum, over the Main items processed
\* for its direction while its report id was active, of report_size x
\* report_count at that item: each Input, Output or Feature item that
\* construction gets past adds report_size x report_count bits to the report
\* of the active id in its pool, and nothing to any other report
C6_ReportSizeIsDeclaredLength ==
    [][(status = "parsing" /\ status' = "parsing")
       => /\ _input' # _input
             => GrowsBy(_input, _input', report_id,
                        Val(report_size) * Val(report_count))
          /\ _output' # _output
             => GrowsBy(_output, _output', report_id,
                        Val(report_size) * Val(report_count))
          /\ _feature' # _feature
             => GrowsBy(_feature, _feature', report_id,
                        Val(report_size) * Val(report_count))]_vars

---------------------------------------------------------------------------
(* Properties of the local state, checked under SpecLocal *)

ReportLen(pool, rid) == IF InPool(rid, pool) THEN Len(PoolItems(pool, rid)) ELSE 0

LastItem(pool, rid) == PoolItems(pool, rid)[Len(PoolItems(pool, rid))]

Count(seq, x) == Cardinality({k \in 1..Len(seq) : seq[k] = x})

\* C7: a variable Main item whose number of usages differs from report_count
\* (2 usages and report_count 3, say) emits exactly one compliance warning
\* and max(report_count, number of usages) fields
C7_MismatchEmitsMaxFields ==
    [][(/\ status = "parsing" /\ status' = "parsing"
        /\ _input' # _input
        /\ usages # <<>>
        /\ LastItem(_input', report_id).cls = "VariableItem"
        /\ Len(usages) # Val(report_count))
       => /\ ReportLen(_input', report_id) - ReportLen(_input, report_id)
               = Max(Val(report_count), Len(usages))
          /\ Count(warned', "HIDComplianceWarning") = 1]_vars

\* The usages (page, lo), (page, lo + 1), ..., (page, hi)
UsageRange(page, lo, hi) ==
    [k \in 1..(hi - lo + 1) |-> [page |-> page, usage |-> lo + k - 1]]

\* C8: a Usage Maximum M after a Usage Minimum m <= M, on active usage page
\* P, appends to the local usage list exactly the M - m + 1 usages (P, m),
\* (P, m + 1), ..., (P, M) in ascending order, after the usages already there
C8_UsageRangeAppended ==
    [][\A chunk \in LocalChunks :
         LET tok == _iterate_raw(chunk, 0)
         IN  (/\ status = "parsing"
              /\ ~Raised(tok)
              /\ tok.typ = Type_LOCAL /\ tok.tag = TagLocal_USAGE_MAXIMUM
              /\ tok.data # None /\ usage_min # None /\ usage_page # None
              /\ Val(usage_min) <= Val(tok.data)
              /\ SetLocals(ParseChunk(Locals, chunk)))
             => /\ status' = "parsing"
                /\ usages' = usages \o UsageRange(Val(usage_page), Val(usage_min),
                                                  Val(tok.data))]_vars

\* A range of two usages has been appended after a usage already in the list
C8_Witness ==
    /\ status = "parsing"
    /\ usages = <<[page |-> 9, usage |-> 1], [page |-> 9, usage |-> 1],
                  [page |-> 9, usage |-> 2]>>
    /\ usage_min = None

---------------------------------------------------------------------------
(* Properties of construction and decoding, checked under SpecGiven *)

Button(n) == [page |-> UsagePages_BUTTON_PAGE, usage |-> n]
GenericDesktop(n) == [page |-> UsagePages_GENERIC_DESKTOP_CONTROLS_PAGE, usage |-> n]

\* C5: the mouse descriptor (3 buttons, 5 bits of padding, X and Y of 8 bits,
\* unnumbered) has an input report of 24 bits, and decoding [0b00000101, 10,
\* 251] gives button 1 true, button 2 false, button 3 true, X = 10, Y = -5
C5_MouseReport ==
    (rdesc = simple_mouse_rdesc /\ status = "done")
    => /\ ReportSize(_input, None) = 24
       /\ report = [pool |-> "input", data |-> <<5, 10, 251>>]
          => /\ ~Raised(parsed)
             /\ DOMAIN parsed.map = {Button(1), Button(2), Button(3),
                                     GenericDesktop(48), GenericDesktop(49)}
             /\ parsed.map[Button(1)] = BoolValue(TRUE)
             /\ parsed.map[Button(2)] = BoolValue(FALSE)
             /\ parsed.map[Button(3)] = BoolValue(TRUE)
             /\ parsed.map[GenericDesktop(48)] = IntValue(10)
             /\ parsed.map[GenericDesktop(49)] = IntValue(-5)

\* The index after the item whose prefix is at index i0, by what the prefix
\* declares
DeclaredEnd(data, i0) == i0 + 1 + CalcSize(data[i0 + 1] % 4)

\* C9: when the prefix of an item declares more data bytes than the buffer
\* has left, construction fails with InvalidReportDescriptor, whatever was
\* processed before, and no object is ever returned
C9_TruncatedItemFails ==
    [][/\ (status = "parsing" /\ i < Len(rdesc)
                              /\ DeclaredEnd(rdesc, i) > Len(rdesc))
          => status' = "InvalidReportDescriptor"
       /\ status = "InvalidReportDescriptor"
          => status' = "InvalidReportDescriptor"]_vars

\* Construction has failed at a truncated item after it had appended items
C9_Witness ==
    /\ status = "InvalidReportDescriptor"
    /\ i < Len(rdesc) /\ DeclaredEnd(rdesc, i) > Len(rdesc)
    /\ _input # <<>>

\* C10: decoding a report of a direction: when the direction's pool has an
\* unnumbered entry the whole payload is decoded against it; otherwise the
\* first payload byte selects the report id and the bytes after it are
\* decoded against that id's items, and when the pool has no entry for that
\* id the call fails (KeyError) instead of returning a mapping
C10_ReportIdSelectsItems ==
    report # None
    => LET pool == PoolOf(report.pool)
           data == report.data
       IN  IF InPool(None, pool)
           THEN parsed = _parse_report_items(PoolItems(pool, None), data)
           ELSE data # <<>>
                => IF InPool(Some(data[1]), pool)
                   THEN parsed = _parse_report_items(
                                   PoolItems(pool, Some(data[1])), Tail(data))
                   ELSE Raised(parsed) /\ parsed.err = "KeyError"

\* A payload has been decoded against the items of the report id its first
\* byte names, and it gave values
C10_Witness ==
    /\ report # None
    /\ report.pool = "input"
    /\ ~InPool(None, _input)
    /\ report.data # <<>> /\ InPool(Some(report.data[1]), _input)
    /\ ~Raised(parsed)
    /\ DOMAIN parsed.map # {}

\* C11: decode calls, those that fail included (unknown report id, payload
\* too short for an item's bits), leave the three pools and the descriptor's
\* bytes as construction made them, so a later decode of a payload gives what
\* it gives on a descriptor just built
C11_DecodeLeavesDescriptor ==
    [][status = "done"
       => /\ status' = "done"
          /\ _input' = _input /\ _output' = _output /\ _feature' = _feature
          /\ rdesc' = rdesc]_vars

\* A decode has failed on a payload too short for the items of report 1
C11_Witness ==
    /\ status = "done"
    /\ rdesc = numbered_keyboard_rdesc
    /\ report = [pool |-> "input", data |-> <<1, 0>>]
    /\ Raised(parsed) /\ parsed.err = "ValueError"
    /\ ReportLen(_input, Some(1)) = 4

\* The items a decode call reads and the bytes it reads them from
DecodedItems(pool, data) ==
    IF InPool(None, pool) THEN PoolItems(pool, None)
    ELSE PoolItems(pool, Some(data[1]))
DecodedBytes(pool, data) == IF InPool(None, pool) THEN data ELSE Tail(data)

\* The Usage keys an item writes to the result, with their values
Written(item, data) ==
    IF item.cls = "VariableItem"
    THEN (item.usage :> VariableItem_parse(item, data))
    ELSE IF item.cls = "ArrayItem" THEN ArrayItem_parse(item, data).map
    ELSE << >>

\* How many times an item writes a key that an item before it wrote
Overwrites(items, data) ==
    SeqSum([k \in 1..Len(items) |->
              Cardinality(DOMAIN Written(items[k], data)
                          \cap UNION {DOMAIN Written(items[j], data) :
                                        j \in 1..(k - 1)})])

\* The last item that writes key u
LastWriter(items, data, u) ==
    CHOOSE k \in 1..Len(items) :
        /\ u \in DOMAIN Written(items[k], data)
        /\ \A j \in (k + 1)..Len(items) : u \notin DOMAIN Written(items[j], data)

\* C12: in one decode call, every time an item writes a Usage key that an
\* earlier item of the report wrote (Variable or Array over Variable or
\* Array) a duplicate-usage warning is emitted, and the result holds the
\* value of the later item
C12_DuplicateUsageWarns ==
    (report # None /\ ~Raised(parsed))
    => LET items == DecodedItems(PoolOf(report.pool), report.data)
           data  == DecodedBytes(PoolOf(report.pool), report.data)
       IN  /\ Count(parsed.warned, "HIDReportWarning") = Overwrites(items, data)
           /\ \A u \in DOMAIN parsed.map :
                parsed.map[u] = Written(items[LastWriter(items, data, u)], data)[u]

\* C13: the expansion of a usage range is bounded: with a range like
\* 0..0xFFFF construction fails with ResourceLimitExceeded and the list of
\* usages is not built
C13_WideRangeRejected ==
    (rdesc = wide_range_rdesc /\ i = Len(rdesc) /\ status # "init")
    => (status = "ResourceLimitExceeded" /\ Len(usages) < 65536)

\* The Global Push and Pop items
PushPop == {<<164>>, <<180>>}

UnitItems == {<<101, 1>>, <<85, 0>>}

\* C15: a Global Unit or Unit Exponent item emits one unsupported-feature
\* warning and does nothing else: construction goes on, the parser's state
\* is as it was before the item, and every item after it is handled as in
\* the descriptor without it
C15_UnitOnlyWarns ==
    [][\A chunk \in UnitItems :
         (status = "parsing" /\ SetLocals(ParseChunk(Locals, chunk)))
         => /\ status' = "parsing"
            /\ warned' = <<"HIDUnsupportedWarning">>
            /\ UNCHANGED <<_input, _output, _feature, offset_input,
                           offset_output, offset_feature, report_id,
                           report_count, report_size, usage_page, glob,
                           usages, usage_min>>
            /\ \A next \in LocalChunks :
                 ParseChunk(Locals', next) = ParseChunk(Locals, next)]_vars

C15_Witness ==
    /\ status = "parsing"
    /\ warned = <<"HIDUnsupportedWarning">>
    /\ _input # <<>> /\ usages # <<>> /\ glob # << >>

IsPrefix(s, t) == Len(s) <= Len(t) /\ SubSeq(t, 1, Len(s)) = s

\* Pool q is pool p after items were emitted under report id rid
PoolGrows(p, q, rid) ==
    /\ \A j, k \in 1..Len(q) : j # k => q[j].rid # q[k].rid
    /\ \A k \in 1..Len(q) : q[k].items # <<>>
    /\ PoolKeys(q) \in {PoolKeys(p), Append(PoolKeys(p), rid)}
    /\ \A k \in 1..Len(p) :
         /\ IsPrefix(p[k].items, q[k].items)
         /\ p[k].rid # rid => q[k] = p[k]

\* C16: in each direction the report ids are those under which an item of
\* the direction was emitted, each once and in the order of their first
\* item; an id that was declared and got no item in a direction is not among
\* that direction's ids; the items of an id are in the order of declaration
C16_ReportIdsInFirstEmissionOrder ==
    [][status = "parsing"
       => /\ PoolGrows(_input, _input', report_id)
          /\ PoolGrows(_output, _output', report_id)
          /\ PoolGrows(_feature, _feature', report_id)]_vars

C16_Witness ==
    /\ status = "done"
    /\ PoolKeys(_input) = <<Some(1), None>>
    /\ _output = <<>> /\ _feature = <<>>

\* The index after the data of the item whose prefix is at index i0
DataEnd(data, i0) == i0 + 1 + <<0, 1, 2, 4>>[(data[i0 + 1] % 4) + 1]

\* C17: the prefix byte holds the tag in its high four bits, the type in
\* bits 2-3 and the size code in the low two; size codes 0, 1, 2, 3 mean 0,
\* 1, 2, 4 data bytes and the next prefix is read right after them; with
\* size code 0 the data is 0 on a Main item and absent on the others
C17_PrefixSplitsIntoTagTypeSize ==
    [][(status = "iterating" /\ i < Len(rdesc) /\ DataEnd(rdesc, i) <= Len(rdesc))
       => /\ ~Raised(token')
          /\ token'.tag = rdesc[i + 1] \div 16
          /\ token'.typ = (rdesc[i + 1] \div 4) % 4
          /\ i' = DataEnd(rdesc, i)
          /\ IF rdesc[i + 1] % 4 # 0 THEN token'.data # None
             ELSE IF token'.typ = Type_MAIN THEN token'.data = Some(0)
             ELSE token'.data = None]_vars

C17_Witness ==
    /\ status = "iterating"
    /\ Len(rdesc) = 7 /\ i = 7 /\ rdesc[1] = 195
    /\ token # None /\ ~Raised(token)
    /\ token.typ = Type_GLOBAL /\ token.tag = TagGlobal_REPORT_ID
    /\ token.data = Some(129)

\* The (type, tag) pairs whose data is read as signed
SignedItem(typ, tag) ==
    /\ typ = Type_GLOBAL
    /\ tag \in {TagGlobal_LOGICAL_MINIMUM, TagGlobal_LOGICAL_MAXIMUM,
                TagGlobal_PHYSICAL_MINIMUM, TagGlobal_PHYSICAL_MAXIMUM,
                TagGlobal_UNIT_EXPONENT}

\* C18: data is little-endian: byte k of the item is bits 8(k-1)..8k-1 of
\* the value; the value is two's-complement signed for Global Logical
\* Minimum/Maximum, Physical Minimum/Maximum and Unit Exponent and unsigned
\* for every other type and tag
C18_DataLittleEndianSignedByTag ==
    [][(/\ status = "iterating" /\ i < Len(rdesc)
        /\ DataEnd(rdesc, i) <= Len(rdesc) /\ rdesc[i + 1] % 4 # 0)
       => LET n == DataEnd(rdesc, i) - i - 1
              v == Val(token'.data)
          IN  /\ \A k \in 1..n :
                   (v \div Pow2(8 * (k - 1))) % 256 = rdesc[i + 1 + k]
              /\ IF SignedItem(token'.typ, token'.tag)
                 THEN v \div Pow2(8 * (n - 1)) \in -128..127
                 ELSE v \div Pow2(8 * (n - 1)) \in 0..255]_vars

C18_Witness ==
    /\ status = "iterating" /\ i = 5
    /\ token # None /\ ~Raised(token)
    /\ token.typ = Type_GLOBAL /\ token.tag = TagGlobal_UNIT_EXPONENT
    /\ token.data = Some(1 + 256 * 129 + 65536 - 127 * 16777216)

\* C19: the bit slice fails when length <= 0 and when offset + length is
\* more than the bits of the buffer; in every other case it returns
\* ceil(length / 8) bytes, each in 0..255
C19_SliceFailsOrReturnsBytes ==
    shifted # None
    => IF \/ shift_args.length <= 0
          \/ shift_args.offset + shift_args.length > 8 * Len(shift_args.data)
       THEN Raised(shifted)
       ELSE /\ ~Raised(shifted)
            /\ Len(shifted.shifted) = (shift_args.length + 7) \div 8
            /\ \A k \in 1..Len(shifted.shifted) : shifted.shifted[k] \in 0..255

C19_Witness ==
    /\ shifted # None /\ ~Raised(shifted)
    /\ shift_args = [data |-> <<165, 255>>, offset |-> 7, length |-> 9]
    /\ Len(shifted.shifted) = 2

\* C20: for every n >= 0, BitNumber(n).byte is n div 8 and BitNumber(n).bit
\* is n mod 8, so that byte * 8 + bit = n and bit < 8
C20_BitNumberIsDivMod ==
    (bitnumber # None /\ bitnumber.byte # None)
    => /\ Val(bitnumber.byte) = bitnumber._value \div 8
       /\ Val(bitnumber.bit) = bitnumber._value % 8
       /\ Val(bitnumber.byte) * 8 + Val(bitnumber.bit) = bitnumber._value
       /\ Val(bitnumber.bit) \in 0..7

C20_Witness ==
    bitnumber # None /\ bitnumber = [_value |-> 47, byte |-> Some(5), bit |-> Some(7)]

---------------------------------------------------------------------------
(* Properties of Usage, checked under SpecUsage *)

\* A call Usage(page, id) with both given and no extended usage
PairCall(c) ==
    c # None /\ c.page # None /\ c.usage # None /\ c.extended_usage = None

\* C21: int(Usage(page, id)) is page << 16 | id, that is page * 65536 + id;
\* Usage(extended_usage=int(Usage(page, id))) equals Usage(page, id); two
\* Usages are equal exactly when page and id are both equal; equal Usages
\* have equal hashes
C21_UsagePacksPageAndId ==
    usage_objs # None
    => LET a == usage_objs["a"]
           b == usage_objs["b"]
       IN  /\ \A c \in {a, b} :
                PairCall(c)
                => /\ ~Raised(c.made)
                   /\ Usage_int(c.made) = Val(c.page) * 65536 + Val(c.usage)
           /\ (/\ PairCall(a) /\ b # None
               /\ b.page = None /\ b.usage = None
               /\ b.extended_usage = Some(Val(a.page) * 65536 + Val(a.usage)))
              => /\ ~Raised(b.made)
                 /\ Usage_eq(b.made, a.made) /\ Usage_eq(a.made, b.made)
           /\ (PairCall(a) /\ PairCall(b))
              => (Usage_eq(a.made, b.made)
                    <=> (a.page = b.page /\ a.usage = b.usage))
           /\ (a # None /\ b # None /\ ~Raised(a.made) /\ ~Raised(b.made)
               /\ Usage_eq(a.made, b.made))
              => Usage_hash(a.made) = Usage_hash(b.made)

C21_Witness ==
    /\ usage_objs # None
    /\ usage_objs["a"] # None /\ usage_objs["b"] # None
    /\ usage_objs["a"] = UsageCall(Some(32767), Some(65535), None)
    /\ usage_objs["b"].extended_usage = Some(2147483647)
    /\ usage_objs["b"].page = None
    /\ usage_objs["b"].made = [page |-> 32767, usage |-> 65535]

\* C22: Usage with both a (page, usage) pair and an extended_usage fails,
\* whatever the three values are, 0 included; Usage with neither a complete
\* pair nor an extended_usage fails with 'No usage specified'
C22_UsageArgumentsChecked ==
    usage_objs # None
    => \A c \in {usage_objs["a"], usage_objs["b"]} :
         c # None
         => /\ (c.page # None /\ c.usage # None /\ c.extended_usage # None)
               => Raised(c.made)
            /\ ((c.page = None \/ c.usage = None) /\ c.extended_usage = None)
               => (Raised(c.made) /\ c.made.msg = "No usage specified")

---------------------------------------------------------------------------
(* Properties of the Report ID item, checked under SpecGiven *)

\* The item at index i0 of data is a Global Report ID item with its data
IsReportIdItem(data, i0) ==
    /\ i0 < Len(data)
    /\ data[i0 + 1] \div 4 = TagGlobal_REPORT_ID * 4 + Type_GLOBAL
    /\ DataEnd(data, i0) <= Len(data)

\* C23: a Global Report ID item ends construction exactly when an item was
\* emitted under no report id before it; when every item emitted so far is
\* under a numbered report, report id 0 included, the item is accepted
C23_ReportIdFailsOnlyAfterUnnumbered ==
    [][(status = "parsing" /\ IsReportIdItem(rdesc, i))
       => (status' # "parsing" <=> \E pool \in Pools : InPool(None, pool))]_vars

---------------------------------------------------------------------------
(* Properties of ArrayItem.parse, checked under SpecGiven *)

\* The value of bits [start, start + size) of data, bit 0 the lowest bit of
\* the first byte
SlotValue(data, start, size) ==
    SeqSum([k \in 1..size |->
              ((data[(start + k - 1) \div 8 + 1] \div Pow2((start + k - 1) % 8)) % 2)
                * Pow2(k - 1)])

\* The array items a decode call read, when the call returned and the data
\* holds every bit of them
ArraysDecoded ==
    IF report = None \/ Raised(parsed) THEN {}
    ELSE LET items == DecodedItems(PoolOf(report.pool), report.data)
             data  == DecodedBytes(PoolOf(report.pool), report.data)
         IN  {[item |-> items[k], data |-> data] :
                k \in {j \in 1..Len(items) :
                         /\ items[j].cls = "ArrayItem"
                         /\ items[j].offset + items[j].size * items[j].count
                              <= 8 * Len(data)}}

\* C24: slot i of an ArrayItem is read from bits [offset + i * size,
\* offset + (i + 1) * size) of the report body: a slot of those bits that
\* holds one of the item's usages puts that usage in the result
C24_ArraySlotsAreSizeApart ==
    \A a \in ArraysDecoded :
       InVendorPage(Val(ArrayItem_page(a.item)))
       \/ \A slot \in 0..(a.item.count - 1) :
            LET u == [page |-> Val(ArrayItem_page(a.item)),
                      usage |-> SlotValue(a.data,
                                          a.item.offset + slot * a.item.size,
                                          a.item.size)]
            IN  (InSeq(u, a.item.usages)
                 /\ ~WarnsIncompatible(u, ArrayItem_INCOMPATIBLE_TYPES))
                => u \in DOMAIN parsed.map

\* C25: for an ArrayItem on a vendor page the result holds under
\* Usage(page, v) a list with one entry v for each slot whose selector is
\* v: a value seen in k slots is k times in the list
C25_VendorListHasOneEntryPerSlot ==
    \A a \in ArraysDecoded :
       InVendorPage(Val(ArrayItem_page(a.item)))
       => \A slot \in 0..(a.item.count - 1) :
            LET v == SlotValue(a.data, a.item.offset + slot * a.item.size,
                               a.item.size)
                u == [page |-> Val(ArrayItem_page(a.item)), usage |-> v]
                k == Cardinality({j \in 0..(a.item.count - 1) :
                                    SlotValue(a.data,
                                              a.item.offset + j * a.item.size,
                                              a.item.size) = v})
            IN  /\ u \in DOMAIN parsed.map
                /\ parsed.map[u].list = [n \in 1..k |-> v]

---------------------------------------------------------------------------
(* Properties of single items, checked under SpecItem *)

\* The (type, tag) pairs the classes TagMain, TagGlobal and TagLocal name
DefinedItem(typ, tag) ==
    \/ /\ typ = Type_MAIN
       /\ tag \in {TagMain_INPUT, TagMain_OUTPUT, TagMain_FEATURE,
                   TagMain_COLLECTION, TagMain_END_COLLECTION}
    \/ /\ typ = Type_GLOBAL
       /\ tag \in {TagGlobal_USAGE_PAGE, TagGlobal_LOGICAL_MINIMUM,
                   TagGlobal_LOGICAL_MAXIMUM, TagGlobal_PHYSICAL_MINIMUM,
                   TagGlobal_PHYSICAL_MAXIMUM, TagGlobal_UNIT_EXPONENT,
                   TagGlobal_UNIT, TagGlobal_REPORT_SIZE, TagGlobal_REPORT_ID,
                   TagGlobal_REPORT_COUNT, TagGlobal_PUSH, TagGlobal_POP}
    \/ /\ typ = Type_LOCAL
       /\ tag \in {TagLocal_USAGE, TagLocal_USAGE_MINIMUM,
                   TagLocal_USAGE_MAXIMUM, TagLocal_DESIGNATOR_INDEX,
                   TagLocal_DESIGNATOR_MINIMUM, TagLocal_DESIGNATOR_MAXIMUM,
                   TagLocal_STRING_INDEX, TagLocal_STRING_MINIMUM,
                   TagLocal_STRING_MAXIMUM, TagLocal_DELIMITER}

\* C26: a token whose type and tag are no defined item (an undefined Main,
\* Global or Local tag, or the reserved type 3) ends construction with an
\* error; it is never passed over
C26_UndefinedItemFails ==
    [][(/\ status = "parsing" /\ i < Len(rdesc)
        /\ DataEnd(rdesc, i) <= Len(rdesc)
        /\ ~DefinedItem((rdesc[i + 1] \div 4) % 4, rdesc[i + 1] \div 16))
       => status' \notin {"parsing", "done"}]_vars

\* The Local String items of LocalChunks
StringItems == {<<121, 1>>, <<137, 1>>, <<153, 2>>}

\* The Local Designator and Delimiter items of LocalChunks
DesignatorDelimiterItems == {<<57, 1>>, <<73, 1>>, <<89, 2>>, <<169, 1>>}

\* C27 as stated: the String, Designator and Delimiter items are all
\* accepted; construction goes on and usage list, pending usage minimum,
\* global state, pools and offsets are as before
C27_StringDesignatorDelimiterIgnored ==
    [][\A chunk \in StringItems \cup DesignatorDelimiterItems :
         (status = "parsing" /\ SetLocals(ParseChunk(Locals, chunk)))
         => /\ status' = "parsing"
            /\ UNCHANGED <<_input, _output, _feature, offset_input,
                           offset_output, offset_feature, report_id,
                           report_count, report_size, usage_page, glob,
                           usages, usage_min>>]_vars

\* C27: a Local String Index, Minimum or Maximum item is accepted and
\* changes neither usage list, pending usage minimum, global state, pools
\* nor offsets; a Local Designator Index, Minimum, Maximum or Delimiter item
\* ends construction with NotImplementedError and appends no item
C27_StringIgnoredDesignatorUnsupported ==
    [][/\ \A chunk \in StringItems :
            (status = "parsing" /\ SetLocals(ParseChunk(Locals, chunk)))
            => /\ status' = "parsing"
               /\ UNCHANGED <<_input, _output, _feature, offset_input,
                              offset_output, offset_feature, report_id,
                              report_count, report_size, usage_page, glob,
                              usages, usage_min>>
       /\ \A chunk \in DesignatorDelimiterItems :
            (status = "parsing" /\ SetLocals(ParseChunk(Locals, chunk)))
            => /\ status' = "NotImplementedError"
               /\ UNCHANGED <<_input, _output, _feature>>]_vars

\* A Designator or Delimiter item ended construction after an item was
\* emitted
C27_Witness ==
    /\ status = "NotImplementedError"
    /\ _input # <<>>

\* C28: right after a Main item of Chunks is processed (Input, Output,
\* Feature, Collection or End Collection) the local usage list is empty and
\* no Usage Minimum is pending
C28_LocalStateClearedByMain ==
    [][\A chunk \in Chunks :
         (/\ (chunk[1] \div 4) % 4 = Type_MAIN
          /\ status = "parsing"
          /\ SetLocals(ParseChunk(Locals, chunk))
          /\ status' = "parsing")
         => (usages' = <<>> /\ usage_min' = None)]_vars

\* Report id rid has items in the pool and another report id got its first
\* item after it: rid is selected again
Reselected(pool, rid) == InPool(rid, pool) /\ pool[Len(pool)].rid # rid

\* The bit where the last of the items ends
ItemsEnd(items) == items[Len(items)].offset + ItemWidth(items[Len(items)])

\* C29: an item emitted under a report id that was selected again starts at
\* the bit where the earlier items of that report id and direction ended,
\* and the items of the other report ids stay as they are
C29_ReselectedReportIdKeepsLayout ==
    [][\A name \in {"input", "output", "feature"} :
         (/\ status = "parsing" /\ status' = "parsing"
          /\ PoolOf(name)' # PoolOf(name)
          /\ Reselected(PoolOf(name), report_id))
         => /\ PoolItems(PoolOf(name)', report_id)
                    [Len(PoolItems(PoolOf(name), report_id)) + 1].offset
                = ItemsEnd(PoolItems(PoolOf(name), report_id))
            /\ \A k \in 1..Len(PoolOf(name)) :
                 PoolOf(name)[k].rid # report_id
                 => PoolOf(name)'[k] = PoolOf(name)[k]]_vars

\* C30: a Report ID item that selects a report id for the first time sets
\* the running offset of that id to 0 in all three directions, and the first
\* item of every report id in every direction has offset 0
C30_NewReportIdStartsAtZero ==
    [][/\ (/\ status = "parsing" /\ IsReportIdItem(rdesc, i)
           /\ status' = "parsing"
           /\ report_id' \notin DOMAIN offset_input)
          => /\ offset_input'[report_id'] = 0
             /\ offset_output'[report_id'] = 0
             /\ offset_feature'[report_id'] = 0
       /\ \A name \in {"input", "output", "feature"} :
            \A k \in 1..Len(PoolOf(name)') :
              PoolOf(name)'[k].items[1].offset = 0]_vars

\* Report 2 got its first item, at bit 0, after report 1 was filled
C30_Witness ==
    /\ status = "parsing"
    /\ rdesc = reselected_rdesc
    /\ PoolKeys(_input) = <<Some(1), Some(2)>>
    /\ ItemsEnd(_input[1].items) > 0
    /\ _input[2].items[1].offset = 0

---------------------------------------------------------------------------
(* Properties of _append_items, checked under SpecGiven *)

\* The item at index i0 of data is an Input, Output or Feature item with
\* its data
MainReportItem(data, i0) ==
    /\ i0 < Len(data)
    /\ DataEnd(data, i0) <= Len(data)
    /\ (data[i0 + 1] \div 4) % 4 = Type_MAIN
    /\ data[i0 + 1] \div 16 \in {TagMain_INPUT, TagMain_OUTPUT, TagMain_FEATURE}

\* Its flags, and the pool of its direction
ItemFlags(data, i0) == Val(_iterate_raw(data, i0).data)
ItemPool(data, i0) ==
    IF data[i0 + 1] \div 16 = TagMain_INPUT THEN "input"
    ELSE IF data[i0 + 1] \div 16 = TagMain_OUTPUT THEN "output"
    ELSE "feature"

\* The items pool q holds for rid beyond those pool p holds
OldItems(pool, rid) == IF InPool(rid, pool) THEN PoolItems(pool, rid) ELSE <<>>
NewItems(p, q, rid) ==
    SubSeq(OldItems(q, rid), Len(OldItems(p, rid)) + 1, Len(OldItems(q, rid)))

\* C31: an Input, Output or Feature item with usages and the variable flag
\* clear emits exactly one ArrayItem of width report_size and count
\* report_count holding the usage list in order; when the usages are not all
\* on one usage page construction ends with InvalidReportDescriptor
C31_ArrayBranchEmitsOneArrayItem ==
    [][(/\ status = "parsing" /\ MainReportItem(rdesc, i)
        /\ usages # <<>>
        /\ BitAnd(ItemFlags(rdesc, i), 2) = 0
        /\ report_count # None /\ report_size # None
        /\ HasRequiredArgs(glob))
       => IF \A k \in 1..Len(usages) : usages[k].page = usages[1].page
          THEN /\ status' = "parsing"
               /\ \A name \in {ItemPool(rdesc, i)} :
                    LET new == NewItems(PoolOf(name), PoolOf(name)', report_id)
                    IN  /\ Len(new) = 1
                        /\ new[1].cls = "ArrayItem"
                        /\ new[1].size = Val(report_size)
                        /\ new[1].count = Val(report_count)
                        /\ new[1].usages = usages
          ELSE status' = "InvalidReportDescriptor"]_vars

\* C32: an Input, Output or Feature item with an empty usage list emits
\* exactly report_count PaddingItems of width report_size, each starting
\* where the one before it ends, whatever its flags; and no key of a decode
\* result comes from a padding item
C32_NoUsagesEmitsPadding ==
    [][/\ (/\ status = "parsing" /\ MainReportItem(rdesc, i)
           /\ usages = <<>>
           /\ report_count # None /\ report_size # None)
          => /\ status' = "parsing"
             /\ \A name \in {ItemPool(rdesc, i)} :
                  LET new == NewItems(PoolOf(name), PoolOf(name)', report_id)
                  IN  /\ Len(new) = Val(report_count)
                      /\ \A k \in 1..Len(new) :
                           /\ new[k].cls = "PaddingItem"
                           /\ new[k].size = Val(report_size)
                           /\ k > 1 => new[k].offset
                                          = new[k - 1].offset + Val(report_size)
       /\ (status = "done" /\ report' # None /\ ~Raised(parsed'))
          => LET items == DecodedItems(PoolOf(report'.pool), report'.data)
             IN  \A u \in DOMAIN parsed'.map :
                   \E k \in 1..Len(items) :
                     \/ items[k].cls = "VariableItem" /\ items[k].usage = u
                     \/ items[k].cls = "ArrayItem"
                        /\ items[k].usages[1].page = u.page]_vars

\* A report of two padding items was decoded
C32_Witness ==
    /\ status = "done"
    /\ rdesc = SubSeq(padded_rdesc, 1, 6)
    /\ Len(PoolItems(_input, None)) = 2
    /\ PoolItems(_input, None)[2] = PaddingItem(4, 4)
    /\ report # None /\ report.pool = "input" /\ report.data = <<5>>
    /\ ~Raised(parsed) /\ parsed.map = << >>

\* C33: an Input, Output or Feature item processed while report_size or
\* report_count is unset ends construction with InvalidReportDescriptor and
\* emits no item
C33_MissingSizeOrCountFails ==
    [][(/\ status = "parsing" /\ MainReportItem(rdesc, i)
        /\ (report_size = None \/ report_count = None))
       => /\ status' = "InvalidReportDescriptor"
          /\ UNCHANGED <<_input, _output, _feature>>]_vars

\* Construction ended at the Input item that follows a Report Size with no
\* data; the item emitted before it is in the pool
C33_Witness ==
    /\ status = "InvalidReportDescriptor"
    /\ rdesc = <<5, 9, 9, 1, 21, 0, 37, 1, 149, 1, 117, 1, 129, 2,
                 116, 9, 1, 129, 2>>
    /\ i = Len(rdesc)
    /\ Len(PoolItems(_input, None)) = 1

---------------------------------------------------------------------------
(* Properties of the Local Usage items, checked under Spec *)

\* The Local Usage items of Chunks
UsageItems == {chunk \in Chunks : chunk[1] \div 4 = TagLocal_USAGE * 4 + Type_LOCAL}

\* C34: a Local Usage item ends construction with InvalidReportDescriptor
\* when no usage page is set; otherwise it appends exactly one usage, on the
\* current usage page and with the item's data as id, to the end of the
\* local usage list and changes nothing else
C34_UsageAppendsOneUsage ==
    [][\A chunk \in UsageItems :
         (status = "parsing" /\ SetLocals(ParseChunk(Locals, chunk)))
         => IF usage_page = None
            THEN status' = "InvalidReportDescriptor"
            ELSE /\ status' = "parsing"
                 /\ Len(usages') = Len(usages) + 1
                 /\ SubSeq(usages', 1, Len(usages)) = usages
                 /\ usages'[Len(usages')].page = Val(usage_page)
                 /\ _iterate_raw(chunk, 0).data # None
                    => usages'[Len(usages')].usage
                         = Val(_iterate_raw(chunk, 0).data)
                 /\ UNCHANGED <<_input, _output, _feature, offset_input,
                                offset_output, offset_feature, report_id,
                                report_count, report_size, usage_page, glob,
                                usage_min>>]_vars

---------------------------------------------------------------------------
(* Properties of Usage Maximum, checked under SpecLocal *)

\* The Local Usage Maximum items of LocalChunks
UsageMaximumItems ==
    {chunk \in LocalChunks :
       chunk[1] \div 4 = TagLocal_USAGE_MAXIMUM * 4 + Type_LOCAL}

\* C35: a Usage Maximum with no pending Usage Minimum ends construction
\* with InvalidReportDescriptor; a Usage Maximum that construction gets past
\* clears the pending minimum, so that a Usage Maximum right after it ends
\* construction the same way
C35_UsageMaximumNeedsMinimum ==
    [][\A chunk \in UsageMaximumItems :
         (status = "parsing" /\ SetLocals(ParseChunk(Locals, chunk)))
         => IF usage_min = None
            THEN status' = "InvalidReportDescriptor"
            ELSE status' = "parsing"
                 => /\ usage_min' = None
                    /\ \A next \in UsageMaximumItems :
                         ParseChunk(Locals', next).status
                           = "InvalidReportDescriptor"]_vars

\* Usage Maximum (3) has expanded the range from the pending minimum 1
C35_Witness ==
    /\ status = "parsing"
    /\ usages = UsageRange(9, 1, 3)
    /\ usage_min = None

---------------------------------------------------------------------------
(* Properties of Collection and End Collection, checked under SpecGiven *)

\* The item at index i0 of data is a Collection or End Collection item with
\* its data
CollectionItem(data, i0) ==
    /\ i0 < Len(data)
    /\ DataEnd(data, i0) <= Len(data)
    /\ (data[i0 + 1] \div 4) % 4 = Type_MAIN
    /\ data[i0 + 1] \div 16 \in {TagMain_COLLECTION, TagMain_END_COLLECTION}

\* C36: a Collection or End Collection item empties the local usage list;
\* construction goes on, and the pools, the running offsets and the global
\* state are as before the item
C36_CollectionOnlyClearsUsages ==
    [][(status = "parsing" /\ CollectionItem(rdesc, i))
       => /\ status' = "parsing"
          /\ usages' = <<>>
          /\ UNCHANGED <<_input, _output, _feature, offset_input,
                         offset_output, offset_feature, report_id,
                         report_count, report_size, usage_page, glob>>]_vars

\* The first Collection of the mouse descriptor was processed with a usage
\* in the list
C36_Witness ==
    /\ status = "parsing"
    /\ rdesc = simple_mouse_rdesc
    /\ i = 6
    /\ usages = <<>> /\ usage_page = Some(1)

\* The running offsets of a direction
OffsetListOf(name) ==
    IF name = "input" THEN offset_input
    ELSE IF name = "output" THEN offset_output
    ELSE offset_feature

\* C37: an Input, Output or Feature item that construction gets past
\* leaves usage page, logical and physical limits, report size, report
\* count and report id as they were, also when it emits more fields than
\* report_count, and changes only the items and the running offset of the
\* current report id in its own direction
C37_MainItemKeepsGlobalState ==
    [][(status = "parsing" /\ MainReportItem(rdesc, i) /\ status' = "parsing")
       => /\ UNCHANGED <<usage_page, glob, report_size, report_count, report_id>>
          /\ \A name \in {"input", "output", "feature"} :
               IF name = ItemPool(rdesc, i)
               THEN /\ DOMAIN OffsetListOf(name)' = DOMAIN OffsetListOf(name)
                    /\ \A rid \in DOMAIN OffsetListOf(name) \ {report_id} :
                         /\ OffsetListOf(name)'[rid] = OffsetListOf(name)[rid]
                         /\ OldItems(PoolOf(name)', rid) = OldItems(PoolOf(name), rid)
                    /\ IsPrefix(OldItems(PoolOf(name), report_id),
                                OldItems(PoolOf(name)', report_id))
               ELSE /\ PoolOf(name)' = PoolOf(name)
                    /\ OffsetListOf(name)' = OffsetListOf(name)]_vars

\* The Input item with three usages and report count 1 was processed: three
\* fields are in the pool and the report count is still 1
C37_Witness ==
    /\ status = "parsing"
    /\ rdesc = grown_count_rdesc
    /\ i = 16
    /\ Len(PoolItems(_input, None)) = 3
    /\ report_count = Some(1)

---------------------------------------------------------------------------
(* Properties of the Main item flags, checked under SpecFlags *)

\* C38: for every flag value, buffered_bytes is true exactly when the
\* description of the value has the field 'Buffered Bytes', and bitfield is
\* true exactly when it has the field 'Bit Field'
C38_FlagPropertiesMatchDescription ==
    main_item # None
    => /\ main_item.buffered_bytes
            <=> (\E k \in 1..Len(main_item.desc) :
                   main_item.desc[k] = "Buffered Bytes")
       /\ main_item.bitfield
            <=> (\E k \in 1..Len(main_item.desc) :
                   main_item.desc[k] = "Bit Field")

---------------------------------------------------------------------------
(* Properties of _data_bit_shift on whole bytes and on the bytes around the
   slice, checked under SpecSlice *)

\* C39: for an offset and a length that are multiples of 8, the length
\* positive and the slice within the buffer, _data_bit_shift returns the
\* bytes of the buffer from index offset / 8 to (offset + length) / 8 - 1,
\* unchanged and in order
C39_WholeBytesAreCopied ==
    (/\ shifted # None
     /\ shift_args.offset % 8 = 0 /\ shift_args.length % 8 = 0
     /\ shift_args.length > 0
     /\ shift_args.offset + shift_args.length <= 8 * Len(shift_args.data))
    => /\ ~Raised(shifted)
       /\ shifted.shifted
            = SubSeq(shift_args.data, shift_args.offset \div 8 + 1,
                     (shift_args.offset + shift_args.length) \div 8)

C39_Witness ==
    /\ shifted # None /\ ~Raised(shifted)
    /\ shift_args = [data |-> <<165, 255>>, offset |-> 8, length |-> 8]
    /\ shifted.shifted = <<255>>

\* The buffers that differ from data in one byte outside indices lo..hi, or
\* by one more byte at the end
Neighbours(data, lo, hi) ==
    {[data EXCEPT ![j] = v] :
       j \in (1..Len(data)) \ ((lo + 1)..(hi + 1)), v \in ByteValues}
    \cup (IF Len(data) < MaxBufLen
          THEN {Append(data, v) : v \in ByteValues} ELSE {})

\* C40: the result depends only on the bytes of the buffer that hold the
\* requested bits, indices offset div 8 to (offset + length - 1) div 8: a
\* buffer that agrees with this one on those bytes gives the same result for
\* the same offset and length
C40_ResultDependsOnSliceBytesOnly ==
    (/\ shifted # None
     /\ shift_args.length > 0
     /\ shift_args.offset + shift_args.length <= 8 * Len(shift_args.data))
    => \A other \in Neighbours(shift_args.data, shift_args.offset \div 8,
                               (shift_args.offset + shift_args.length - 1)
                                 \div 8) :
         _data_bit_shift(other, shift_args.offset, shift_args.length) = shifted

\* A slice of the low four bits of byte 0 was taken from a buffer whose
\* last byte, the one the loop reads before byte 0, has all bits set
C40_Witness ==
    /\ shifted # None /\ ~Raised(shifted)
    /\ shift_args = [data |-> <<165, 255>>, offset |-> 0, length |-> 4]

====
